---- MODULE Spec2Model ----
(***************************************************************************)
(* Warehouse Transfer Request client script: the workflow button resolver, *)
(* the field editability resolver, the quantity delta tracker and the      *)
(* approve / ship / receive handlers with their client-side validation.    *)
(***************************************************************************)
EXTENDS Integers, Sequences, FiniteSets, Bags, TLC

VARIABLES
  approval_status,      \* frm.doc.approval_status
  user_roles,           \* frappe.user_roles
  source_warehouse,     \* frm.doc.source_warehouse
  target_warehouse,     \* frm.doc.target_warehouse
  items,                \* frm.doc.items, the child table rows in order
  original_quantities,  \* frm.__original_quantities, the baseline snapshot
  server,               \* the document as persisted by the server of record
  dirty,                \* frm.is_dirty()
  rendered,             \* the form went through onload/refresh at least once
  buttons,              \* labels of the custom buttons currently on the page
  dialog,               \* the frappe.msgprint dialog currently shown
  call,                 \* the frappe.call / frm.save request in flight
  last_handler,         \* the button handler that produced dialog / call
  transfer_type,        \* frm.doc.transfer_type
  ui,                   \* read_only flags, cannot_add_rows, disable_form
  confirm,              \* the frappe.confirm question waiting for an answer
  sheet,                \* the worksheet of the file picked for upload
  reply,                \* r.message of validate_items_for_upload, in flight
  resp,                 \* the response r handed to the callback of the RPC
  raised,               \* the exception the last callback ended with
  lookups,              \* the barcode lookups in flight (no freeze), a bag
  alert,                \* the last frappe.show_alert of a barcode handler
  receipt               \* the Purchase Receipt form: docstatus and rows

vars == <<approval_status, user_roles, source_warehouse, target_warehouse,
          items, original_quantities, server, dirty, rendered, buttons,
          dialog, call, last_handler, transfer_type, ui, confirm, sheet,
          reply, resp, raised, lookups, alert, receipt>>

\* the state of the warehouse selection and of the spreadsheet import
\* the barcode scans of the two forms
scans == <<lookups, alert, receipt>>

extras == <<transfer_type, confirm, sheet, reply, resp, raised, scans>>

\* the response in flight and the outcome of its callback
asyncs == <<resp, raised, scans>>

----------------------------------------------------------------------------
(* Bounds of the model *)

\* largest quantity of a persisted row and of an inline edit
MaxQty == 2

\* largest number of rows the item table grows to by Add Row
MaxRows == 3

----------------------------------------------------------------------------
(* Vocabulary *)

Statuses ==
  {"Draft", "Pending Approval", "Approved - Pending Shipment",
   "Partially Shipped", "Shipped", "Partially Completed", "Completed",
   "Rejected"}

Roles ==
  {"External Transfer Manager", "Zahran Warehouse Manager",
   "Store Warehouse Manager", "Store Manager"}

GROUP_A == {"Zahran Main - EZ", "Damage - EZ", "Damage For Sale - EZ"}

GROUP_B == {"Store Warehouse - EZ", "Store Display - EZ", "Store Damage - EZ"}

\* source.includes("Zahran") over the warehouse names of the two groups
IncludesZahran(w) == w \in {"Zahran Main - EZ"}

\* source.includes("Store") over the warehouse names of the two groups
IncludesStore(w) == w \in GROUP_B

NoDialog == [title |-> "", lines |-> <<>>]

NoCall == [method |-> "", items |-> <<>>, then |-> ""]

MissingSnapshot == [present |-> FALSE, q |-> <<>>]

NoSheet == [headers |-> <<>>, rows |-> <<>>]

NoReply == [kind |-> "", validated_items |-> <<>>]

\* no Purchase Receipt is open
NoReceipt == [docstatus |-> 0, purchase_order |-> "", items |-> <<>>]

Row(n, c, req, acc, shp, rec, av) ==
  [name |-> n, item_code |-> c, requested_qty |-> req, accepted_qty |-> acc,
   shipped_qty |-> shp, received_qty |-> rec, available_qty |-> av]

----------------------------------------------------------------------------
(* can_ship / can_receive *)

can_ship(roles, source) ==
  \/ IncludesZahran(source) /\ "Zahran Warehouse Manager" \in roles
  \/ IncludesStore(source) /\ "Store Warehouse Manager" \in roles

can_receive(roles, target) ==
  \/ IncludesZahran(target) /\ "Zahran Warehouse Manager" \in roles
  \/ IncludesStore(target) /\ "Store Warehouse Manager" \in roles

----------------------------------------------------------------------------
(* refresh: the workflow buttons, an if / else-if chain on the status *)

\* the chain with every branch tested independently of the earlier ones
WorkflowButtons_IndependentBranches(status, roles, source, target) ==
  (IF status = "Draft" THEN {"Submit for Approval"} ELSE {})
  \cup (IF status = "Pending Approval" /\ "External Transfer Manager" \in roles
        THEN {"Approve", "Reject"} ELSE {})
  \cup (IF status \in {"Approved - Pending Shipment", "Partially Shipped"}
           /\ can_ship(roles, source)
        THEN {"Mark as Shipped"} ELSE {})
  \cup (IF status \in {"Shipped", "Partially Shipped", "Partially Completed"}
           /\ can_receive(roles, target)
        THEN {"Confirm Receipt"} ELSE {})

\* the chain without the can_ship / can_receive role checks
WorkflowButtons_NoRoleCheck(status, roles, source, target) ==
  IF status = "Draft" THEN {"Submit for Approval"}
  ELSE IF status = "Pending Approval" /\ "External Transfer Manager" \in roles
    THEN {"Approve", "Reject"}
  ELSE IF status \in {"Approved - Pending Shipment", "Partially Shipped"}
    THEN {"Mark as Shipped"}
  ELSE IF status \in {"Shipped", "Partially Shipped", "Partially Completed"}
    THEN {"Confirm Receipt"}
  ELSE {}

\* the chain with Approve / Reject offered to every user
WorkflowButtons_ApprovalWithoutRole(status, roles, source, target) ==
  IF status = "Draft" THEN {"Submit for Approval"}
  ELSE IF status = "Pending Approval" THEN {"Approve", "Reject"}
  ELSE IF status \in {"Approved - Pending Shipment", "Partially Shipped"}
    THEN (IF can_ship(roles, source) THEN {"Mark as Shipped"} ELSE {})
  ELSE IF status \in {"Shipped", "Partially Shipped", "Partially Completed"}
    THEN (IF can_receive(roles, target) THEN {"Confirm Receipt"} ELSE {})
  ELSE {}

WorkflowButtons(status, roles, source, target) ==
  IF status = "Draft" THEN {"Submit for Approval"}
  ELSE IF status = "Pending Approval" /\ "External Transfer Manager" \in roles
    THEN {"Approve", "Reject"}
  ELSE IF status \in {"Approved - Pending Shipment", "Partially Shipped"}
    THEN (IF can_ship(roles, source) THEN {"Mark as Shipped"} ELSE {})
  ELSE IF status \in {"Shipped", "Partially Shipped", "Partially Completed"}
    THEN (IF can_receive(roles, target) THEN {"Confirm Receipt"} ELSE {})
  ELSE {}

ExcelButtons(status) ==
  IF status = "Draft"
  THEN {"Download Template", "Upload Items from Excel"}
  ELSE {}

----------------------------------------------------------------------------
(* control_quantity_field_editability: the editable_fields table *)

editable_fields(status, roles) ==
  [item_code |-> status = "Draft",
   requested_qty |-> status = "Draft",
   accepted_qty |->
     status = "Pending Approval" /\ "External Transfer Manager" \in roles,
   shipped_qty |->
     /\ status \in {"Approved - Pending Shipment", "Partially Shipped"}
     /\ ("Zahran Warehouse Manager" \in roles \/ "Store Manager" \in roles),
   received_qty |->
     /\ status \in {"Shipped", "Partially Shipped", "Partially Completed"}
     /\ ("Zahran Warehouse Manager" \in roles \/ "Store Manager" \in roles),
   requester_notes |-> status = "Draft",
   manager_notes |->
     status = "Pending Approval" /\ "External Transfer Manager" \in roles]

----------------------------------------------------------------------------
(* What refresh leaves on the form besides the buttons: the read_only flags  *)
(* of the item columns and of the header fields, the grid's cannot_add_rows  *)
(* and frm.disable_form()                                                    *)

Columns ==
  {"item_code", "requested_qty", "accepted_qty", "shipped_qty",
   "received_qty", "requester_notes", "manager_notes"}

HeaderFields ==
  {"source_warehouse", "target_warehouse", "transfer_type", "remarks",
   "requested_date"}

\* a resolver that only ever opens columns: a flag once 0 stays 0
control_quantity_field_editability_Sticky(read_only, status, roles) ==
  [c \in Columns |->
     IF editable_fields(status, roles)[c] THEN 0 ELSE read_only[c]]

\* df.read_only = editable_fields[fieldname] ? 0 : 1, for the seven columns;
\* read_only is the flags the grid held before the call
control_quantity_field_editability(read_only, status, roles) ==
  [c \in Columns |-> IF editable_fields(status, roles)[c] THEN 0 ELSE 1]

\* the locked statuses without the terminal ones
locked_statuses_WithoutTerminal ==
  {"Pending Approval", "Approved - Pending Shipment", "Shipped",
   "Partially Completed"}

\* before_items_remove / update_field_visibility: the locked statuses
locked_statuses ==
  {"Pending Approval", "Approved - Pending Shipment", "Shipped",
   "Partially Completed", "Completed", "Rejected"}

update_field_visibility(status) ==
  [header_read_only |->
     [f \in HeaderFields |-> IF status \in locked_statuses THEN 1 ELSE 0],
   cannot_add_rows |-> status \in locked_statuses]

update_transfer_type_readonly(status) == IF status = "Draft" THEN 0 ELSE 1

UnrenderedUI ==
  [read_only |-> [c \in Columns |-> 0],
   header_read_only |-> [f \in HeaderFields |-> 0],
   cannot_add_rows |-> FALSE,
   disabled |-> FALSE]

\* refresh: update_field_visibility, update_transfer_type_readonly,
\* control_quantity_field_editability, and disable_form in the end
RefreshUI(prev, status, roles) ==
  [read_only |->
     control_quantity_field_editability(prev.read_only, status, roles),
   header_read_only |->
     [update_field_visibility(status).header_read_only
        EXCEPT !["transfer_type"] = update_transfer_type_readonly(status)],
   cannot_add_rows |-> update_field_visibility(status).cannot_add_rows,
   disabled |-> status \in {"Completed", "Rejected"}]

----------------------------------------------------------------------------
(* store_original_quantities *)

RowNames(its) == {its[i].name : i \in 1..Len(its)}

\* the names the framework gives to rows
RowNamePool ==
  {"row1", "row2", "row3", "row4", "row5", "row6", "row7", "row8"}

RowByName(its, n) == its[CHOOSE i \in 1..Len(its) : its[i].name = n]

store_original_quantities(its) ==
  [present |-> TRUE,
   q |-> [n \in RowNames(its) |->
            [shipped_qty |-> RowByName(its, n).shipped_qty,
             received_qty |-> RowByName(its, n).received_qty]]]

----------------------------------------------------------------------------
(* save_and_ship / save_and_receive: the baseline the deltas are taken from *)

\* the fallback written as an empty object: every baseline reads as 0
original_quantities_snapshot_EmptyFallback(its, oq) ==
  IF oq.present THEN oq.q ELSE store_original_quantities(<<>>).q

original_quantities_snapshot(its, oq) ==
  IF oq.present THEN oq.q ELSE store_original_quantities(its).q

\* original_quantities_snapshot[item.name]?.shipped_qty || 0
original_shipped(item, snap) ==
  IF item.name \in DOMAIN snap THEN snap[item.name].shipped_qty ELSE 0

\* original_quantities_snapshot[item.name]?.received_qty || 0
original_received(item, snap) ==
  IF item.name \in DOMAIN snap THEN snap[item.name].received_qty ELSE 0

\* the cumulative total instead of the increment
shipping_now_Cumulative(item, snap) == item.shipped_qty

shipping_now(item, snap) == item.shipped_qty - original_shipped(item, snap)

receiving_now(item, snap) == item.received_qty - original_received(item, snap)

----------------------------------------------------------------------------
(* process_shipment *)

\* the per-row outcome without the shipped > accepted check
ShipRowOutcome_NoLimitCheck(item, snap) ==
  IF item.accepted_qty = 0 THEN "skip"
  ELSE IF shipping_now(item, snap) > 0
    THEN (IF shipping_now(item, snap) > item.available_qty
          THEN "stock" ELSE "send")
  ELSE "unchanged"

\* what the forEach body does with one row
ShipRowOutcome(item, snap) ==
  IF item.accepted_qty = 0 THEN "skip"
  ELSE IF shipping_now(item, snap) > 0
    THEN (IF item.shipped_qty > item.accepted_qty THEN "exceeds"
          ELSE IF shipping_now(item, snap) > item.available_qty THEN "stock"
          ELSE "send")
  ELSE "unchanged"

ShipErrorLine(item, snap) ==
  IF ShipRowOutcome(item, snap) = "exceeds"
  THEN [text |-> "Shipped quantity ({1}) cannot exceed accepted quantity ({2})",
        args |-> <<item.item_code, item.shipped_qty, item.accepted_qty>>]
  ELSE [text |-> "Shipping quantity ({1}) exceeds available stock ({2})",
        args |-> <<item.item_code, shipping_now(item, snap),
                   item.available_qty>>]

\* validation that stops at the first violating row
ship_validation_errors_FailFast(its, snap) ==
  LET bad == SelectSeq(its, LAMBDA it :
                 ShipRowOutcome(it, snap) \in {"exceeds", "stock"})
  IN IF bad = <<>> THEN <<>> ELSE <<ShipErrorLine(bad[1], snap)>>

ship_validation_errors(its, snap) ==
  LET bad == SelectSeq(its, LAMBDA it :
                 ShipRowOutcome(it, snap) \in {"exceeds", "stock"})
  IN [i \in 1..Len(bad) |-> ShipErrorLine(bad[i], snap)]

shipped_items(its, snap) ==
  LET sent == SelectSeq(its, LAMBDA it : ShipRowOutcome(it, snap) = "send")
  IN [i \in 1..Len(sent) |->
        [item_code |-> sent[i].item_code, qty |-> shipping_now(sent[i], snap)]]

has_unshipped(its, snap) ==
  \E i \in 1..Len(its) :
      /\ its[i].accepted_qty # 0
      /\ its[i].accepted_qty - original_shipped(its[i], snap) > 0

process_shipment(its, snap) ==
  IF ship_validation_errors(its, snap) # <<>>
  THEN [dialog |-> [title |-> "Validation Errors",
                    lines |-> ship_validation_errors(its, snap)],
        call |-> NoCall]
  ELSE IF shipped_items(its, snap) = <<>>
  THEN [dialog |-> [title |-> IF has_unshipped(its, snap)
                              THEN "No Items Selected"
                              ELSE "All Items Shipped",
                    lines |-> <<>>],
        call |-> NoCall]
  ELSE [dialog |-> NoDialog,
        call |-> [method |-> "mark_as_shipped",
                  items |-> shipped_items(its, snap), then |-> ""]]

save_and_ship(its, oq) ==
  IF its = <<>>
  THEN [dialog |-> [title |-> "No Items", lines |-> <<>>], call |-> NoCall]
  ELSE process_shipment(its, original_quantities_snapshot(its, oq))

----------------------------------------------------------------------------
(* process_receipt *)

ReceiveRowOutcome(item, snap) ==
  IF item.shipped_qty = 0 THEN "skip"
  ELSE IF receiving_now(item, snap) > 0
    THEN (IF item.received_qty > item.shipped_qty THEN "exceeds" ELSE "send")
  ELSE "unchanged"

ReceiveErrorLine(item) ==
  [text |-> "Received quantity ({1}) cannot exceed shipped quantity ({2})",
   args |-> <<item.item_code, item.received_qty, item.shipped_qty>>]

receive_validation_errors(its, snap) ==
  LET bad == SelectSeq(its, LAMBDA it : ReceiveRowOutcome(it, snap) = "exceeds")
  IN [i \in 1..Len(bad) |-> ReceiveErrorLine(bad[i])]

received_items(its, snap) ==
  LET sent == SelectSeq(its, LAMBDA it : ReceiveRowOutcome(it, snap) = "send")
  IN [i \in 1..Len(sent) |->
        [item_code |-> sent[i].item_code, qty |-> receiving_now(sent[i], snap)]]

has_pending(its, snap) ==
  \E i \in 1..Len(its) :
      /\ its[i].shipped_qty # 0
      /\ its[i].shipped_qty - original_received(its[i], snap) > 0

process_receipt(its, snap) ==
  IF receive_validation_errors(its, snap) # <<>>
  THEN [dialog |-> [title |-> "Validation Errors",
                    lines |-> receive_validation_errors(its, snap)],
        call |-> NoCall]
  ELSE IF received_items(its, snap) = <<>>
  THEN [dialog |-> [title |-> IF has_pending(its, snap)
                              THEN "No Items Selected"
                              ELSE "All Items Received",
                    lines |-> <<>>],
        call |-> NoCall]
  ELSE [dialog |-> NoDialog,
        call |-> [method |-> "confirm_receipt",
                  items |-> received_items(its, snap), then |-> ""]]

save_and_receive(its, oq) ==
  IF its = <<>>
  THEN [dialog |-> [title |-> "No Items", lines |-> <<>>], call |-> NoCall]
  ELSE process_receipt(its, original_quantities_snapshot(its, oq))

----------------------------------------------------------------------------
(* save_and_approve *)

\* the per-row outcome without the accepted > requested check
ApproveRowOutcome_NoExceedsCheck(item) ==
  IF item.accepted_qty < 0 THEN "negative" ELSE "accept"

ApproveRowOutcome(item) ==
  IF item.accepted_qty < 0 THEN "negative"
  ELSE IF item.accepted_qty > item.requested_qty THEN "exceeds"
  ELSE "accept"

ApproveErrorLine(item) ==
  IF ApproveRowOutcome(item) = "negative"
  THEN [text |-> "Accepted quantity cannot be negative",
        args |-> <<item.item_code>>]
  ELSE [text |-> "Accepted quantity ({1}) cannot exceed requested quantity ({2})",
        args |-> <<item.item_code, item.accepted_qty, item.requested_qty>>]

approve_validation_errors(its) ==
  LET bad == SelectSeq(its, LAMBDA it : ApproveRowOutcome(it) # "accept")
  IN [i \in 1..Len(bad) |-> ApproveErrorLine(bad[i])]

accepted_items(its) ==
  LET ok == SelectSeq(its, LAMBDA it : ApproveRowOutcome(it) = "accept")
  IN [i \in 1..Len(ok) |->
        [item_code |-> ok[i].item_code, qty |-> ok[i].accepted_qty]]

\* save_and_approve saving the form whether or not it is dirty
save_and_approve_AlwaysSaves(its, is_dirty) ==
  IF its = <<>>
  THEN [dialog |-> [title |-> "No Items", lines |-> <<>>], call |-> NoCall]
  ELSE IF approve_validation_errors(its) # <<>>
  THEN [dialog |-> [title |-> "Validation Errors",
                    lines |-> approve_validation_errors(its)],
        call |-> NoCall]
  ELSE IF ~ \E i \in 1..Len(accepted_items(its)) : accepted_items(its)[i].qty > 0
  THEN [dialog |-> [title |-> "No Items Accepted", lines |-> <<>>],
        call |-> NoCall]
  ELSE [dialog |-> NoDialog,
        call |-> [method |-> "frm.save", items |-> accepted_items(its),
                  then |-> "approve_transfer"]]

\* is_dirty: frm.save() first, call_approve_api in its then()
save_and_approve(its, is_dirty) ==
  IF its = <<>>
  THEN [dialog |-> [title |-> "No Items", lines |-> <<>>], call |-> NoCall]
  ELSE IF approve_validation_errors(its) # <<>>
  THEN [dialog |-> [title |-> "Validation Errors",
                    lines |-> approve_validation_errors(its)],
        call |-> NoCall]
  ELSE IF ~ \E i \in 1..Len(accepted_items(its)) : accepted_items(its)[i].qty > 0
  THEN [dialog |-> [title |-> "No Items Accepted", lines |-> <<>>],
        call |-> NoCall]
  ELSE IF is_dirty
  THEN [dialog |-> NoDialog,
        call |-> [method |-> "frm.save", items |-> accepted_items(its),
                  then |-> "approve_transfer"]]
  ELSE [dialog |-> NoDialog,
        call |-> [method |-> "approve_transfer", items |-> accepted_items(its),
                  then |-> ""]]

----------------------------------------------------------------------------
(* The documents the server of record may hold, by status.  Two rows, each  *)
(* requested MaxQty; row2 has one unit of stock in the source warehouse.    *)

DocRows(a1, s1, r1, a2, s2, r2) ==
  << Row("row1", "ITEM-A", MaxQty, a1, s1, r1, MaxQty),
     Row("row2", "ITEM-B", MaxQty, a2, s2, r2, 1) >>

ServerItems(status) ==
  CASE status = "Approved - Pending Shipment" ->
         {DocRows(p[1], 0, 0, p[2], 0, 0) : p \in (1..MaxQty) \X (0..MaxQty)}
    [] status = "Partially Shipped" ->
         {DocRows(MaxQty, 1, 0, a2, 0, 0) : a2 \in {0, MaxQty}}
    [] status = "Shipped" ->
         {DocRows(p[1], p[1], 0, p[2], p[2], 0) :
            p \in (1..MaxQty) \X (0..MaxQty)}
    [] status = "Partially Completed" ->
         {DocRows(MaxQty, MaxQty, 1, a2, a2, 0) : a2 \in {0, MaxQty}}
    [] status = "Completed" ->
         {DocRows(MaxQty, MaxQty, MaxQty, MaxQty, MaxQty, MaxQty)}
    [] OTHER -> {DocRows(MaxQty, 0, 0, MaxQty, 0, 0)}

\* the statuses a successful transition RPC may leave the document in
StatusAfter(method) ==
  CASE method = "submit_for_approval" -> {"Pending Approval"}
    [] method = "approve_transfer" -> {"Approved - Pending Shipment"}
    [] method = "reject_transfer" -> {"Rejected"}
    [] method = "mark_as_shipped" -> {"Partially Shipped", "Shipped"}
    [] method = "confirm_receipt" -> {"Partially Completed", "Completed"}
    [] OTHER -> {}

TransitionRPCs ==
  {"submit_for_approval", "approve_transfer", "reject_transfer",
   "mark_as_shipped", "confirm_receipt"}

\* one acting user per workflow phase, on a Zahran Main -> Store Warehouse transfer
Users ==
  {{"External Transfer Manager"},
   {"Zahran Warehouse Manager", "Store Warehouse Manager"}}

WarehousePool ==
  {"", "Zahran Main - EZ", "Damage - EZ", "Store Warehouse - EZ",
   "Store Display - EZ"}

----------------------------------------------------------------------------
(* setup_warehouse_filters: the candidates of the two link fields *)

EXTERNAL_WAREHOUSES == {"Zahran Main - EZ", "Store Warehouse - EZ"}

TransferTypes == {"", "Internal Transfer", "External Transfer"}

\* the leaf warehouses other than Hold
LeafWarehouses == GROUP_A \cup GROUP_B

\* the source candidates without the exclusion of the selected target
SourceQuery_IgnoresTarget(type, target) ==
  IF type = "" THEN LeafWarehouses
  ELSE IF type = "Internal Transfer" THEN GROUP_A \cup GROUP_B
  ELSE IF type = "External Transfer" THEN EXTERNAL_WAREHOUSES
  ELSE {}

\* frm.set_query("source_warehouse", ...)
SourceQuery(type, target) ==
  IF type = "" THEN LeafWarehouses
  ELSE LET allowed_warehouses ==
             IF type = "Internal Transfer" THEN GROUP_A \cup GROUP_B
             ELSE IF type = "External Transfer" THEN EXTERNAL_WAREHOUSES
             ELSE {}
       IN IF target # "" THEN allowed_warehouses \ {target}
          ELSE allowed_warehouses

\* the target candidates of an Internal transfer with the source left in
TargetQuery_KeepsSource(type, source) ==
  IF type = "" THEN LeafWarehouses
  ELSE IF type = "Internal Transfer"
    THEN (IF source = "" THEN GROUP_A \cup GROUP_B
          ELSE IF source \in GROUP_A THEN GROUP_A
          ELSE IF source \in GROUP_B THEN GROUP_B
          ELSE {})
  ELSE IF type = "External Transfer"
    THEN (IF source = "" THEN EXTERNAL_WAREHOUSES
          ELSE EXTERNAL_WAREHOUSES \ {source})
  ELSE {}

\* frm.set_query("target_warehouse", ...)
TargetQuery(type, source) ==
  IF type = "" THEN LeafWarehouses
  ELSE IF type = "Internal Transfer"
    THEN (IF source = "" THEN GROUP_A \cup GROUP_B
          ELSE IF source \in GROUP_A THEN GROUP_A \ {source}
          ELSE IF source \in GROUP_B THEN GROUP_B \ {source}
          ELSE {})
  ELSE IF type = "External Transfer"
    THEN (IF source = "" THEN EXTERNAL_WAREHOUSES
          ELSE EXTERNAL_WAREHOUSES \ {source})
  ELSE {}

\* the transfer types under which the form can hold the pair (source, target)
ConsistentTypes(source, target) ==
  {type \in TransferTypes :
     /\ source = "" \/ source \in SourceQuery(type, "")
     /\ target = "" \/ target \in TargetQuery(type, source)}

\* the transfer type of a document with the pair (source, target)
TypeOfPair(source, target) ==
  IF "External Transfer" \in ConsistentTypes(source, target)
  THEN "External Transfer"
  ELSE IF "Internal Transfer" \in ConsistentTypes(source, target)
  THEN "Internal Transfer"
  ELSE ""

----------------------------------------------------------------------------
(* The response of a transition RPC and the callbacks that take it *)

NoResponse ==
  [arrived |-> FALSE, envelope |-> FALSE, success |-> FALSE, message |-> ""]

\* r.message is absent
NoEnvelope ==
  [arrived |-> TRUE, envelope |-> FALSE, success |-> FALSE, message |-> ""]

\* r.message = {success, message}
Envelope(success, message) ==
  [arrived |-> TRUE, envelope |-> TRUE, success |-> success,
   message |-> message]

ServerMessages == {"", "Insufficient stock"}

Responses ==
  {NoEnvelope} \cup {Envelope(s, m) : s \in BOOLEAN, m \in ServerMessages}

\* handle_api_response reloading whatever the envelope says
handle_api_response_AlwaysReloads(response) ==
  [reload |-> TRUE, dialog |-> NoDialog, raised |-> ""]

\* handle_api_response, the callback of submit_for_approval and
\* reject_transfer
handle_api_response(response) ==
  IF response.envelope /\ response.success
  THEN [reload |-> TRUE, dialog |-> NoDialog, raised |-> ""]
  ELSE [reload |-> FALSE,
        dialog |-> [title |-> "Error",
                    lines |-> << IF response.envelope THEN response.message
                                 ELSE "Unknown error" >>],
        raised |-> ""]

\* the inline callbacks of call_approve_api, call_ship_api and
\* call_receive_api: r.message.message is read in the else branch
api_callback(title, response) ==
  IF response.envelope /\ response.success
  THEN [reload |-> TRUE, dialog |-> NoDialog, raised |-> ""]
  ELSE IF ~ response.envelope
  THEN [reload |-> FALSE, dialog |-> NoDialog, raised |-> "TypeError"]
  ELSE [reload |-> FALSE,
        dialog |-> [title |-> title,
                    lines |-> << IF response.message # ""
                                 THEN response.message
                                 ELSE "Unknown error" >>],
        raised |-> ""]

callback(method, response) ==
  CASE method = "approve_transfer" -> api_callback("Approval Failed", response)
    [] method = "mark_as_shipped" -> api_callback("Shipment Failed", response)
    [] method = "confirm_receipt" -> api_callback("Receipt Failed", response)
    [] OTHER -> handle_api_response(response)

----------------------------------------------------------------------------
(* State after construction: the document is loaded, nothing has run yet *)

Unrendered ==
  /\ original_quantities = MissingSnapshot
  /\ dirty = FALSE
  /\ rendered = FALSE
  /\ buttons = {}
  /\ dialog = NoDialog
  /\ call = NoCall
  /\ last_handler = ""
  /\ ui = UnrenderedUI
  /\ confirm = ""
  /\ sheet = NoSheet
  /\ reply = NoReply
  /\ resp = NoResponse
  /\ raised = ""
  /\ lookups = EmptyBag
  /\ alert = ""
  /\ receipt = NoReceipt

Init ==
  /\ approval_status \in Statuses
  /\ user_roles \in Users
  /\ source_warehouse = "Zahran Main - EZ"
  /\ target_warehouse = "Store Warehouse - EZ"
  /\ transfer_type = "External Transfer"
  /\ items \in ServerItems(approval_status)
  /\ server = [status |-> approval_status, items |-> items]
  /\ Unrendered

\* the form's controls with requests that do not freeze the page
Idle_NoFreeze == rendered /\ dialog.title = ""

Idle == rendered /\ dialog.title = "" /\ call.method = ""

\* onload / refresh: take the snapshot, rebuild the buttons
Refresh ==
  /\ dialog.title = "" /\ call.method = ""
  /\ original_quantities' = store_original_quantities(items)
  /\ buttons' = WorkflowButtons(approval_status, user_roles,
                                source_warehouse, target_warehouse)
                \cup ExcelButtons(approval_status)
  /\ ui' = RefreshUI(ui, approval_status, user_roles)
  /\ rendered' = TRUE
  /\ UNCHANGED <<approval_status, user_roles, source_warehouse,
                 target_warehouse, items, server, dirty, dialog, call,
                 last_handler>>
  /\ UNCHANGED extras

----------------------------------------------------------------------------
(* Inline edits of the quantity columns, and row removal *)

EditAccepted(i, v) ==
  /\ Idle
  /\ editable_fields(approval_status, user_roles).accepted_qty
  /\ v # items[i].accepted_qty
  /\ items' = [items EXCEPT ![i].accepted_qty = v]
  /\ dirty' = TRUE
  /\ UNCHANGED <<approval_status, user_roles, source_warehouse,
                 target_warehouse, original_quantities, server, rendered,
                 buttons, dialog, call, last_handler>>
  /\ UNCHANGED <<ui, extras>>

EditShipped(i, v) ==
  /\ Idle
  /\ editable_fields(approval_status, user_roles).shipped_qty
  /\ v # items[i].shipped_qty
  /\ items' = [items EXCEPT ![i].shipped_qty = v]
  /\ dirty' = TRUE
  /\ UNCHANGED <<approval_status, user_roles, source_warehouse,
                 target_warehouse, original_quantities, server, rendered,
                 buttons, dialog, call, last_handler>>
  /\ UNCHANGED <<ui, extras>>

\* the received_qty handler clamps the value to requested_qty
EditReceived(i, v) ==
  /\ Idle
  /\ editable_fields(approval_status, user_roles).received_qty
  /\ v # items[i].received_qty
  /\ items' = [items EXCEPT ![i].received_qty =
                 IF v > items[i].requested_qty
                 THEN items[i].requested_qty ELSE v]
  /\ dirty' = TRUE
  /\ UNCHANGED <<approval_status, user_roles, source_warehouse,
                 target_warehouse, original_quantities, server, rendered,
                 buttons, dialog, call, last_handler>>
  /\ UNCHANGED <<ui, extras>>

\* before_items_remove throws in the locked statuses only
RemoveRow(i) ==
  /\ Idle
  /\ approval_status \notin locked_statuses
  /\ items' = [j \in 1..(Len(items) - 1) |->
                 IF j < i THEN items[j] ELSE items[j + 1]]
  /\ dirty' = TRUE
  /\ UNCHANGED <<approval_status, user_roles, source_warehouse,
                 target_warehouse, original_quantities, server, rendered,
                 buttons, dialog, call, last_handler>>
  /\ UNCHANGED <<ui, extras>>

\* the grid's Add Row, and the items_add handler on the new row
AddRow ==
  /\ Idle
  /\ ~ ui.cannot_add_rows
  /\ ~ ui.disabled
  /\ Len(items) < MaxRows
  /\ items' = Append(items,
                Row(CHOOSE n \in RowNamePool : n \notin RowNames(items),
                    "", 0, 0, 0, 0, 0))
  /\ dirty' = TRUE
  /\ UNCHANGED <<approval_status, user_roles, source_warehouse,
                 target_warehouse, original_quantities, server, rendered,
                 buttons, dialog, call, last_handler>>
  /\ UNCHANGED <<ui, extras>>

----------------------------------------------------------------------------
(* Button handlers *)

Handle(handler, result) ==
  /\ dialog' = result.dialog
  /\ call' = result.call
  /\ last_handler' = handler
  /\ raised' = ""
  /\ UNCHANGED <<approval_status, user_roles, source_warehouse,
                 target_warehouse, items, original_quantities, server, dirty,
                 rendered, buttons>>
  /\ UNCHANGED <<ui, transfer_type, confirm, sheet, reply, resp, scans>>

ClickSubmit ==
  /\ Idle
  /\ "Submit for Approval" \in buttons
  /\ Handle("submit_for_approval",
            [dialog |-> NoDialog,
             call |-> IF dirty
                      THEN [method |-> "frm.save", items |-> <<>>,
                            then |-> "submit_for_approval"]
                      ELSE [method |-> "submit_for_approval", items |-> <<>>,
                            then |-> ""]])

ClickApprove ==
  /\ Idle
  /\ "Approve" \in buttons
  /\ Handle("save_and_approve", save_and_approve(items, dirty))

ClickReject ==
  /\ Idle
  /\ "Reject" \in buttons
  /\ Handle("reject_transfer",
            [dialog |-> NoDialog,
             call |-> [method |-> "reject_transfer", items |-> <<>>,
                       then |-> ""]])

ClickShip ==
  /\ Idle
  /\ "Mark as Shipped" \in buttons
  /\ Handle("save_and_ship", save_and_ship(items, original_quantities))

ClickReceive ==
  /\ Idle
  /\ "Confirm Receipt" \in buttons
  /\ Handle("save_and_receive", save_and_receive(items, original_quantities))

DismissDialog ==
  /\ dialog.title # ""
  /\ dialog' = NoDialog
  /\ last_handler' = ""
  /\ UNCHANGED <<approval_status, user_roles, source_warehouse,
                 target_warehouse, items, original_quantities, server, dirty,
                 rendered, buttons, call>>
  /\ UNCHANGED <<ui, extras>>

----------------------------------------------------------------------------
(* Completion of the request in flight *)

\* frm.save() resolved: the document is persisted, the form refreshed, and
\* the then() callback issues the transition RPC
SaveDone ==
  /\ call.method = "frm.save"
  /\ server' = [status |-> approval_status, items |-> items]
  /\ dirty' = FALSE
  /\ original_quantities' = store_original_quantities(items)
  /\ call' = [method |-> call.then, items |-> call.items, then |-> ""]
  /\ UNCHANGED <<approval_status, user_roles, source_warehouse,
                 target_warehouse, items, rendered, buttons, dialog,
                 last_handler>>
  /\ UNCHANGED <<ui, extras>>

\* frm.save() rejected: then() never runs
SaveFailed ==
  /\ call.method = "frm.save"
  /\ call' = NoCall
  /\ last_handler' = ""
  /\ UNCHANGED <<approval_status, user_roles, source_warehouse,
                 target_warehouse, items, original_quantities, server, dirty,
                 rendered, buttons, dialog>>
  /\ UNCHANGED <<ui, extras>>

\* the server answers the transition RPC; a successful transition is
\* persisted before the answer leaves
ServerResponds(response) ==
  /\ call.method \in TransitionRPCs
  /\ resp = NoResponse
  /\ resp' = response
  /\ IF response.envelope /\ response.success
     THEN \E st \in StatusAfter(call.method) : \E doc \in ServerItems(st) :
            server' = [status |-> st, items |-> doc]
     ELSE server' = server
  /\ UNCHANGED <<approval_status, user_roles, source_warehouse,
                 target_warehouse, items, original_quantities, dirty,
                 rendered, buttons, dialog, call, last_handler>>
  /\ UNCHANGED <<ui, transfer_type, confirm, sheet, reply, raised, scans>>

\* the callback goes to frm.reload_doc(): the server's document is loaded
\* and the refresh event runs on it
ResponseSuccess ==
  /\ call.method \in TransitionRPCs
  /\ resp.arrived
  /\ callback(call.method, resp).reload
  /\ approval_status' = server.status
  /\ items' = server.items
  /\ original_quantities' = store_original_quantities(server.items)
  /\ buttons' = WorkflowButtons(server.status, user_roles, source_warehouse,
                                target_warehouse)
                \cup ExcelButtons(server.status)
  /\ ui' = RefreshUI(ui, server.status, user_roles)
  /\ dirty' = FALSE
  /\ dialog' = NoDialog
  /\ call' = NoCall
  /\ last_handler' = ""
  /\ resp' = NoResponse
  /\ raised' = ""
  /\ UNCHANGED <<user_roles, source_warehouse, target_warehouse, rendered,
                 server>>
  /\ UNCHANGED <<transfer_type, confirm, sheet, reply, scans>>

\* the callback goes to frappe.msgprint, or ends with an exception: nothing
\* is reloaded
ResponseFailure ==
  /\ call.method \in TransitionRPCs
  /\ resp.arrived
  /\ ~ callback(call.method, resp).reload
  /\ dialog' = callback(call.method, resp).dialog
  /\ raised' = callback(call.method, resp).raised
  /\ call' = NoCall
  /\ resp' = NoResponse
  /\ last_handler' = IF callback(call.method, resp).dialog = NoDialog
                     THEN "" ELSE last_handler
  /\ UNCHANGED <<approval_status, user_roles, source_warehouse,
                 target_warehouse, items, original_quantities, server, dirty,
                 rendered, buttons>>
  /\ UNCHANGED <<ui, transfer_type, confirm, sheet, reply, scans>>

Next ==
  \/ Refresh
  \/ \E i \in 1..Len(items) : \E v \in (0 - 1)..(MaxQty + 1) : EditAccepted(i, v)
  \/ \E i \in 1..Len(items) : \E v \in 0..MaxQty : EditShipped(i, v)
  \/ \E i \in 1..Len(items) : \E v \in 0..(MaxQty + 1) : EditReceived(i, v)
  \/ \E i \in 1..Len(items) : RemoveRow(i)
  \/ ClickSubmit
  \/ ClickApprove
  \/ ClickReject
  \/ ClickShip
  \/ ClickReceive
  \/ DismissDialog
  \/ SaveDone
  \/ SaveFailed
  \/ \E response \in Responses : ServerResponds(response)
  \/ ResponseSuccess
  \/ ResponseFailure

Spec == Init /\ [][Next]_vars

----------------------------------------------------------------------------
(* The button resolver alone, over every status, role set and warehouse pair *)

InitRefresh ==
  /\ approval_status \in Statuses
  /\ user_roles \in SUBSET Roles
  /\ source_warehouse \in WarehousePool
  /\ target_warehouse \in WarehousePool
  /\ source_warehouse = "" \/ source_warehouse # target_warehouse
  /\ transfer_type = TypeOfPair(source_warehouse, target_warehouse)
  /\ items \in ServerItems(approval_status)
  /\ server = [status |-> approval_status, items |-> items]
  /\ Unrendered

NextRefresh == Refresh

SpecRefresh == InitRefresh /\ [][NextRefresh]_vars

----------------------------------------------------------------------------
(* The structure of the item table: refresh, Add Row and row removal, over  *)
(* every status and role set                                                *)

InitStructure ==
  /\ approval_status \in Statuses
  /\ user_roles \in SUBSET Roles
  /\ source_warehouse = "Zahran Main - EZ"
  /\ target_warehouse = "Store Warehouse - EZ"
  /\ transfer_type = "External Transfer"
  /\ items \in ServerItems(approval_status)
  /\ server = [status |-> approval_status, items |-> items]
  /\ Unrendered

NextStructure ==
  \/ Refresh
  \/ AddRow
  \/ \E i \in 1..Len(items) : RemoveRow(i)

SpecStructure == InitStructure /\ [][NextStructure]_vars

----------------------------------------------------------------------------
(* The approval_status field event, which re-runs the two resolvers without *)
(* a refresh, over every status and role set                                *)

\* approval_status: update_field_visibility, control_quantity_field_editability
ApprovalStatusChanged(status) ==
  /\ dialog.title = "" /\ call.method = ""
  /\ status # approval_status
  /\ approval_status' = status
  /\ ui' = [ui EXCEPT
              !.read_only =
                 control_quantity_field_editability(ui.read_only, status,
                                                    user_roles),
              !.header_read_only =
                 update_field_visibility(status).header_read_only,
              !.cannot_add_rows =
                 update_field_visibility(status).cannot_add_rows]
  /\ dirty' = TRUE
  /\ UNCHANGED <<user_roles, source_warehouse, target_warehouse, items,
                 original_quantities, server, rendered, buttons, dialog, call,
                 last_handler>>
  /\ UNCHANGED extras

InitEditability == InitStructure

NextEditability ==
  \/ Refresh
  \/ \E status \in Statuses : ApprovalStatusChanged(status)

SpecEditability == InitEditability /\ [][NextEditability]_vars

----------------------------------------------------------------------------
(* The header of a Draft: transfer type and warehouse selection *)

\* the source_warehouse handler without the clearing of a duplicate
source_warehouse_handler_KeepsDuplicate(source, target) ==
  IF source # "" /\ target # "" /\ source = target
  THEN [value |-> source, title |-> "Invalid Selection"]
  ELSE [value |-> source, title |-> ""]

\* source_warehouse: a value equal to the target is refused and cleared
source_warehouse_handler(source, target) ==
  IF source # "" /\ target # "" /\ source = target
  THEN [value |-> "", title |-> "Invalid Selection"]
  ELSE [value |-> source, title |-> ""]

\* target_warehouse: a value equal to the source is refused and cleared
target_warehouse_handler(source, target) ==
  IF source # "" /\ target # "" /\ source = target
  THEN [value |-> "", title |-> "Invalid Selection"]
  ELSE [value |-> target, title |-> ""]

\* the user picks w (or nothing) in the source field; the handler runs, and
\* runs again on the cleared value when it refused w; with items in the
\* table it then asks whether to clear them
SelectSource(w) ==
  /\ Idle /\ confirm = ""
  /\ ui.header_read_only["source_warehouse"] = 0
  /\ w \in SourceQuery(transfer_type, target_warehouse) \cup {""}
  /\ w # source_warehouse
  /\ source_warehouse' = source_warehouse_handler(w, target_warehouse).value
  /\ dialog' = [title |-> source_warehouse_handler(w, target_warehouse).title,
                lines |-> <<>>]
  /\ confirm' = IF items # <<>> THEN "source_warehouse" ELSE ""
  /\ last_handler' = "source_warehouse"
  /\ dirty' = TRUE
  /\ UNCHANGED <<approval_status, user_roles, target_warehouse, items,
                 original_quantities, server, rendered, buttons, call,
                 transfer_type, ui, sheet, reply>>
  /\ UNCHANGED asyncs

SelectTarget(w) ==
  /\ Idle /\ confirm = ""
  /\ ui.header_read_only["target_warehouse"] = 0
  /\ w \in TargetQuery(transfer_type, source_warehouse) \cup {""}
  /\ w # target_warehouse
  /\ target_warehouse' = target_warehouse_handler(source_warehouse, w).value
  /\ dialog' = [title |-> target_warehouse_handler(source_warehouse, w).title,
                lines |-> <<>>]
  /\ last_handler' = "target_warehouse"
  /\ dirty' = TRUE
  /\ UNCHANGED <<approval_status, user_roles, source_warehouse, items,
                 original_quantities, server, rendered, buttons, call,
                 transfer_type, ui, confirm, sheet, reply>>
  /\ UNCHANGED asyncs

\* transfer_type: with a warehouse selected the user is asked first
ChangeTransferType(type) ==
  /\ Idle /\ confirm = ""
  /\ ui.header_read_only["transfer_type"] = 0
  /\ type # transfer_type
  /\ transfer_type' = type
  /\ confirm' = IF source_warehouse # "" \/ target_warehouse # ""
                THEN "transfer_type" ELSE ""
  /\ last_handler' = "transfer_type"
  /\ dirty' = TRUE
  /\ UNCHANGED <<approval_status, user_roles, source_warehouse,
                 target_warehouse, items, original_quantities, server,
                 rendered, buttons, dialog, call, ui, sheet, reply>>
  /\ UNCHANGED asyncs

\* the user answers Yes: the warehouses and / or the items are cleared.  The
\* source_warehouse event of the clearing set_value may run before or after
\* clear_table, so it may ask about the items once more
ConfirmYes ==
  /\ confirm # ""
  /\ items' = <<>>
  /\ IF confirm = "transfer_type"
     THEN /\ source_warehouse' = ""
          /\ target_warehouse' = ""
          /\ confirm' \in {""} \cup
                (IF source_warehouse # "" /\ items # <<>>
                 THEN {"source_warehouse"} ELSE {})
     ELSE /\ confirm' = ""
          /\ UNCHANGED <<source_warehouse, target_warehouse>>
  /\ dirty' = TRUE
  /\ UNCHANGED <<approval_status, user_roles, original_quantities, server,
                 rendered, buttons, dialog, call, last_handler,
                 transfer_type, ui, sheet, reply>>
  /\ UNCHANGED asyncs

\* the user answers No: frm.reload_doc() and the refresh that follows it
ConfirmNo ==
  /\ confirm # ""
  /\ transfer_type' = server.transfer_type
  /\ source_warehouse' = server.source_warehouse
  /\ target_warehouse' = server.target_warehouse
  /\ items' = server.items
  /\ approval_status' = server.status
  /\ original_quantities' = store_original_quantities(server.items)
  /\ buttons' = WorkflowButtons(server.status, user_roles,
                                server.source_warehouse,
                                server.target_warehouse)
                \cup ExcelButtons(server.status)
  /\ ui' = RefreshUI(ui, server.status, user_roles)
  /\ confirm' = ""
  /\ dirty' = FALSE
  /\ UNCHANGED <<user_roles, server, rendered, dialog, call, last_handler,
                 sheet, reply>>
  /\ UNCHANGED asyncs

HeaderPairs ==
  {p \in ({""} \cup LeafWarehouses) \X ({""} \cup LeafWarehouses) :
     p[1] = "" \/ p[1] # p[2]}

InitWarehouses ==
  /\ approval_status = "Draft"
  /\ user_roles \in Users
  /\ \E p \in HeaderPairs : source_warehouse = p[1] /\ target_warehouse = p[2]
  /\ transfer_type \in ConsistentTypes(source_warehouse, target_warehouse)
  /\ items \in {<<>>} \cup ServerItems("Draft")
  /\ server = [status |-> approval_status, items |-> items,
               transfer_type |-> transfer_type,
               source_warehouse |-> source_warehouse,
               target_warehouse |-> target_warehouse]
  /\ Unrendered

NextWarehouses ==
  \/ Refresh
  \/ \E w \in LeafWarehouses \cup {""} : SelectSource(w)
  \/ \E w \in LeafWarehouses \cup {""} : SelectTarget(w)
  \/ \E type \in TransferTypes : ChangeTransferType(type)
  \/ ConfirmYes
  \/ ConfirmNo
  \/ DismissDialog

SpecWarehouses == InitWarehouses /\ [][NextWarehouses]_vars

----------------------------------------------------------------------------
(* Spreadsheet import: upload_items_from_excel and populate_items_table *)

\* String.prototype.toLowerCase, over the headers of the worksheets
toLowerCase(h) ==
  CASE h = "Item Code (mandatory) Example: EZ-103282-SA" ->
         "item code (mandatory) example: ez-103282-sa"
    [] h = "Requested Qty (mandatory) Example: 50" ->
         "requested qty (mandatory) example: 50"
    [] h = "Requester Notes (optional) Example: Need urgently" ->
         "requester notes (optional) example: need urgently"
    [] h = "ITEM CODE" -> "item code"
    [] h = "Item Name" -> "item name"
    [] h = "Item Barcode" -> "item barcode"
    [] h = "Barcode" -> "barcode"
    [] h = "REQUESTED QTY" -> "requested qty"
    [] h = "Qty" -> "qty"
    [] OTHER -> h

\* String.prototype.includes, over the lower-cased headers and the words
\* the import looks for
includes(s, word) ==
  word \in
    CASE s = "item code (mandatory) example: ez-103282-sa" -> {"item", "code"}
      [] s = "requested qty (mandatory) example: 50" -> {"requested", "qty"}
      [] s = "requester notes (optional) example: need urgently" ->
           {"requester", "notes"}
      [] s = "item code" -> {"item", "code"}
      [] s = "item name" -> {"item"}
      [] s = "item barcode" -> {"item", "code"}
      [] s = "barcode" -> {"code"}
      [] s = "requested qty" -> {"requested", "qty"}
      [] s = "qty" -> {"qty"}
      [] OTHER -> {}

\* String.prototype.trim, over the cells of the worksheets
trim(cell) ==
  CASE cell = "  " -> ""
    [] cell = " ITEM-A " -> "ITEM-A"
    [] cell = " ITEM-B " -> "ITEM-B"
    [] cell = " BC-A " -> "BC-A"
    [] OTHER -> cell

\* parseInt(cell) || 0, over the cells of the worksheets
parseInt(cell) == IF cell = "2" THEN 2 ELSE 0

\* headers.find(h => h includes w1 and w2, lower-cased): the column of the
\* first such header, 0 when there is none
RECURSIVE find_header(_, _, _, _)
find_header(headers, w1, w2, i) ==
  IF i > Len(headers) THEN 0
  ELSE IF /\ includes(toLowerCase(headers[i]), w1)
          /\ includes(toLowerCase(headers[i]), w2)
  THEN i
  ELSE find_header(headers, w1, w2, i + 1)

item_code_header(headers) == find_header(headers, "item", "code", 1)

requested_qty_header(headers) == find_header(headers, "requested", "qty", 1)

requester_notes_header(headers) == find_header(headers, "requester", "notes", 1)

\* the rows filtered on the untrimmed item-code cell
items_to_validate_NoTrim(sh) ==
  LET mapped == [k \in 1..Len(sh.rows) |->
        [item_code |-> sh.rows[k][item_code_header(sh.headers)],
         requested_qty |->
           parseInt(sh.rows[k][requested_qty_header(sh.headers)]),
         requester_notes |->
           IF requester_notes_header(sh.headers) # 0
           THEN trim(sh.rows[k][requester_notes_header(sh.headers)])
           ELSE ""]]
  IN SelectSeq(mapped, LAMBDA it : it.item_code # "")

\* json_data.map(...).filter(item => item.item_code)
items_to_validate(sh) ==
  LET mapped == [k \in 1..Len(sh.rows) |->
        [item_code |-> trim(sh.rows[k][item_code_header(sh.headers)]),
         requested_qty |->
           parseInt(sh.rows[k][requested_qty_header(sh.headers)]),
         requester_notes |->
           IF requester_notes_header(sh.headers) # 0
           THEN trim(sh.rows[k][requester_notes_header(sh.headers)])
           ELSE ""]]
  IN SelectSeq(mapped, LAMBDA it : it.item_code # "")

\* loaded: window.XLSX is there; readable: XLSX.read does not throw
upload_items_from_excel(loaded, readable, source, sh) ==
  LET msg(title) == [dialog |-> [title |-> title, lines |-> <<>>],
                     call |-> NoCall]
  IN IF ~ loaded THEN msg("Library Not Loaded")
     ELSE IF source = "" THEN msg("Source Warehouse Required")
     ELSE IF ~ readable THEN msg("File Error")
     ELSE IF sh.rows = <<>> THEN msg("Invalid File")
     ELSE IF \/ item_code_header(sh.headers) = 0
             \/ requested_qty_header(sh.headers) = 0
       THEN msg("Invalid Format")
     ELSE IF items_to_validate(sh) = <<>> THEN msg("No Items Found")
     ELSE [dialog |-> NoDialog,
           call |-> [method |-> "validate_items_for_upload",
                     items |-> items_to_validate(sh), then |-> ""]]

\* n names for rows added by frm.add_child, none of them in use
RECURSIVE fresh_names(_, _)
fresh_names(used, n) ==
  IF n = 0 THEN <<>>
  ELSE LET nm == CHOOSE x \in RowNamePool \ used : TRUE
       IN <<nm>> \o fresh_names(used \cup {nm}, n - 1)

\* the rows the import adds, one per validated item
uploaded_rows(its, validated_items, status) ==
  LET names == fresh_names(RowNames(its), Len(validated_items))
  IN [k \in 1..Len(validated_items) |->
        Row(names[k], validated_items[k].item_code,
            validated_items[k].requested_qty,
            IF status = "Draft" THEN validated_items[k].requested_qty ELSE 0,
            0, 0, validated_items[k].available_qty)]

\* the import in append mode
populate_items_table_Append(its, validated_items, status) ==
  its \o uploaded_rows(its, validated_items, status)

\* frm.clear_table("items"), then one add_child per validated item
populate_items_table(its, validated_items, status) ==
  uploaded_rows(its, validated_items, status)

\* r.message of validate_items_for_upload for the items sent; "error" is a
\* failed request, "malformed" a message with neither success nor errors
validate_items_for_upload(kind, sent) ==
  [kind |-> kind,
   validated_items |->
     IF kind = "success"
     THEN [k \in 1..Len(sent) |->
             [item_code |-> sent[k].item_code,
              requested_qty |-> sent[k].requested_qty,
              requester_notes |-> sent[k].requester_notes,
              available_qty |-> MaxQty]]
     ELSE <<>>]

ReplyKinds == {"success", "errors", "malformed", "error"}

\* the user clicks Upload Items from Excel and picks a file; the file is
\* read, its rows are prepared and sent for validation.  Imports are started
\* on a form without unsaved changes, which bounds the model to one
\* successful import per loaded document
ClickUpload(loaded, readable, sh) ==
  /\ Idle /\ confirm = ""
  /\ ~ dirty
  /\ "Upload Items from Excel" \in buttons
  /\ LET r == upload_items_from_excel(loaded, readable, source_warehouse, sh)
     IN /\ dialog' = r.dialog
        /\ call' = r.call
        /\ sheet' = IF r.call # NoCall THEN sh ELSE NoSheet
  /\ last_handler' = "upload_items_from_excel"
  /\ UNCHANGED <<approval_status, user_roles, source_warehouse,
                 target_warehouse, items, original_quantities, server, dirty,
                 rendered, buttons, transfer_type, ui, confirm, reply>>
  /\ UNCHANGED asyncs

\* the server answers the validation request
ServerValidates(kind) ==
  /\ call.method = "validate_items_for_upload"
  /\ reply = NoReply
  /\ reply' = validate_items_for_upload(kind, call.items)
  /\ UNCHANGED <<approval_status, user_roles, source_warehouse,
                 target_warehouse, items, original_quantities, server, dirty,
                 rendered, buttons, dialog, call, last_handler,
                 transfer_type, ui, confirm, sheet>>
  /\ UNCHANGED asyncs

\* callback / error of the validation request
UploadCallback ==
  /\ call.method = "validate_items_for_upload"
  /\ reply # NoReply
  /\ IF reply.kind = "success"
     THEN /\ items' = populate_items_table(items, reply.validated_items,
                                           approval_status)
          /\ ui' = [ui EXCEPT !.read_only =
                      control_quantity_field_editability(
                        ui.read_only, approval_status, user_roles)]
          /\ dirty' = TRUE
          /\ dialog' = [title |-> "Upload Complete", lines |-> <<>>]
     ELSE /\ dialog' =
               [title |-> CASE reply.kind = "errors" -> "Validation Failed"
                            [] reply.kind = "malformed" -> "Validation Error"
                            [] OTHER -> "API Error",
                lines |-> <<>>]
          /\ UNCHANGED <<items, ui, dirty>>
  /\ call' = NoCall
  /\ reply' = NoReply
  /\ sheet' = NoSheet
  /\ UNCHANGED <<approval_status, user_roles, source_warehouse,
                 target_warehouse, original_quantities, server, rendered,
                 buttons, last_handler, transfer_type, confirm>>
  /\ UNCHANGED asyncs

\* the worksheets picked: five header rows, up to two data rows
SheetHeaders ==
  {<<"Item Code (mandatory) Example: EZ-103282-SA",
     "Requested Qty (mandatory) Example: 50",
     "Requester Notes (optional) Example: Need urgently">>,
   <<"Item Name", "ITEM CODE", "REQUESTED QTY">>,
   <<"Item Barcode", "ITEM CODE", "REQUESTED QTY">>,
   <<"Barcode", "Item Name", "REQUESTED QTY">>,
   <<"ITEM CODE", "Qty", "Item Name">>}

SheetRows ==
  {<<c1, c2, "2">> : c1 \in {"", "  ", " ITEM-A "},
                     c2 \in {"", " ITEM-B ", "2"}}

Sheets ==
  {[headers |-> h, rows |-> r] :
     h \in SheetHeaders,
     r \in {<<>>} \cup {<<r1>> : r1 \in SheetRows}
           \cup {<<r1, r2>> : r1 \in SheetRows, r2 \in SheetRows}}

InitUpload ==
  /\ approval_status = "Draft"
  /\ user_roles \in Users
  /\ source_warehouse \in {"", "Zahran Main - EZ"}
  /\ target_warehouse = "Store Warehouse - EZ"
  /\ transfer_type = ""
  /\ items \in {<<>>} \cup ServerItems("Draft")
  /\ server = [status |-> approval_status, items |-> items]
  /\ Unrendered

NextUpload ==
  \/ Refresh
  \/ \E loaded \in BOOLEAN : \E readable \in BOOLEAN : \E sh \in Sheets :
       ClickUpload(loaded, readable, sh)
  \/ \E kind \in ReplyKinds : ServerValidates(kind)
  \/ UploadCallback
  \/ DismissDialog

SpecUpload == InitUpload /\ [][NextUpload]_vars

----------------------------------------------------------------------------
(* The ship / receive handlers alone, applied to any table and baseline *)

HandlerRows(n, c) ==
  {Row(n, c, MaxQty, t[1], t[2], t[3], MaxQty) :
     t \in (0..MaxQty) \X (0..MaxQty) \X (0..MaxQty)}

HandlerItems ==
  {<<>>} \cup {<<r1>> : r1 \in HandlerRows("row1", "ITEM-A")}
  \cup {<<r1, r2>> : r1 \in HandlerRows("row1", "ITEM-A"),
                     r2 \in HandlerRows("row2", "ITEM-B")}

InitHandlers ==
  /\ approval_status \in {"Partially Shipped"}
  /\ user_roles \in Users
  /\ source_warehouse = "Zahran Main - EZ"
  /\ target_warehouse = "Store Warehouse - EZ"
  /\ items \in HandlerItems
  /\ server = [status |-> approval_status, items |-> items]
  /\ original_quantities \in
       {MissingSnapshot,
        store_original_quantities(DocRows(MaxQty, 0, 0, MaxQty, 0, 0))}
  /\ dirty = FALSE
  /\ rendered = TRUE
  /\ buttons = {}
  /\ dialog = NoDialog
  /\ call = NoCall
  /\ last_handler = ""
  /\ transfer_type = "External Transfer"
  /\ ui = RefreshUI(UnrenderedUI, approval_status, user_roles)
  /\ confirm = ""
  /\ sheet = NoSheet
  /\ reply = NoReply
  /\ resp = NoResponse
  /\ raised = ""
  /\ lookups = EmptyBag
  /\ alert = ""
  /\ receipt = NoReceipt

InvokeSaveAndShip ==
  /\ last_handler = ""
  /\ Handle("save_and_ship", save_and_ship(items, original_quantities))

InvokeSaveAndReceive ==
  /\ last_handler = ""
  /\ Handle("save_and_receive", save_and_receive(items, original_quantities))

NextHandlers == InvokeSaveAndShip \/ InvokeSaveAndReceive

SpecHandlers == InitHandlers /\ [][NextHandlers]_vars

----------------------------------------------------------------------------
(* Barcode scanning on the transfer request: custom_scan_barcode and the  *)
(* three handlers behind it.  The lookups are issued without freeze, so    *)
(* several can be in flight and their callbacks run in any order.          *)

\* the lookups in flight at any time, at most
MaxPending == 2

\* the texts the scanner types into custom_scan_barcode
ScannedTexts == {"  ", " BC-A ", "BC-B", "BC-D", "BC-X"}

\* get_item_by_barcode on the server: the item of a barcode, "" when the
\* barcode is unknown
get_item_by_barcode(barcode) ==
  CASE barcode = "BC-A" -> "ITEM-A"
    [] barcode = "BC-B" -> "ITEM-B"
    [] barcode = "BC-D" -> "ITEM-D"
    [] OTHER -> ""

\* Bin.actual_qty of the item in the source warehouse
actual_qty(item_code) ==
  CASE item_code = "ITEM-A" -> MaxQty
    [] item_code = "ITEM-B" -> 1
    [] OTHER -> 0

operation_mode(status) ==
  IF status = "Draft" THEN "add_item"
  ELSE IF status \in {"Approved - Pending Shipment", "Partially Shipped"}
  THEN "ship_item"
  ELSE IF status \in {"Shipped", "Partially Completed"} THEN "receive_item"
  ELSE ""

\* the forEach over frm.doc.items: the last row holding the item, 0 for none
item_row(its, item_code) ==
  LET found == {i \in 1..Len(its) : its[i].item_code = item_code}
  IN IF found = {} THEN 0
     ELSE CHOOSE i \in found : \A j \in found : j <= i

Lookup(method, mode, barcode, item_code, available_qty) ==
  [method |-> method, operation_mode |-> mode, barcode |-> barcode,
   item_code |-> item_code, available_qty |-> available_qty, row |-> "",
   po_reference |-> ""]

\* what a callback leaves: the rows, the alert, and the lookup it issues
Outcome(its, message, next) ==
  [items |-> its, alert |-> message, next |-> next]

\* the shipment handler without the accepted_qty limit
handle_ship_item_by_barcode_NoLimit(its, item_code) ==
  LET i == item_row(its, item_code)
  IN IF its = <<>> THEN Outcome(its, "No items in transfer request", <<>>)
     ELSE IF i = 0 THEN Outcome(its, "Item not in this transfer request", <<>>)
     ELSE Outcome([its EXCEPT ![i].shipped_qty = its[i].shipped_qty + 1],
                  "Shipped +1", <<>>)

handle_ship_item_by_barcode(its, item_code) ==
  LET i == item_row(its, item_code)
  IN IF its = <<>> THEN Outcome(its, "No items in transfer request", <<>>)
     ELSE IF i = 0 THEN Outcome(its, "Item not in this transfer request", <<>>)
     ELSE IF its[i].accepted_qty = 0
     THEN Outcome(its, "Item was excluded", <<>>)
     ELSE IF its[i].shipped_qty + 1 > its[i].accepted_qty
     THEN Outcome(its, "Max reached", <<>>)
     ELSE Outcome([its EXCEPT ![i].shipped_qty = its[i].shipped_qty + 1],
                  "Shipped +1", <<>>)

\* set_value of received_qty runs the received_qty handler, which caps the
\* value at requested_qty
handle_receive_item_by_barcode(its, item_code) ==
  LET i == item_row(its, item_code)
      new_received == its[i].received_qty + 1
  IN IF its = <<>> THEN Outcome(its, "No items in transfer request", <<>>)
     ELSE IF i = 0 THEN Outcome(its, "Item not in this transfer request", <<>>)
     ELSE IF its[i].shipped_qty = 0
     THEN Outcome(its, "Item has not been shipped yet", <<>>)
     ELSE IF new_received > its[i].shipped_qty
     THEN Outcome(its, "Max reached", <<>>)
     ELSE Outcome([its EXCEPT ![i].received_qty =
                     IF new_received > its[i].requested_qty
                     THEN its[i].requested_qty ELSE new_received],
                  "Received +1", <<>>)

\* a row of the item is in the table: requested_qty + 1, and accepted_qty
\* with it in Draft; otherwise the item is fetched first
handle_add_item_by_barcode(its, item_code, barcode, status) ==
  LET i == item_row(its, item_code)
      new_qty == its[i].requested_qty + 1
  IN IF i # 0
     THEN IF its[i].available_qty # 0 /\ new_qty > its[i].available_qty
          THEN Outcome(its, "Max stock reached", <<>>)
          ELSE Outcome([its EXCEPT
                          ![i].requested_qty = new_qty,
                          ![i].accepted_qty =
                            IF status = "Draft" THEN new_qty
                            ELSE its[i].accepted_qty],
                       "Requested +1", <<>>)
     ELSE Outcome(its, alert,
                  << Lookup("frappe.client.get", "add_item", barcode,
                            item_code, 0) >>)

\* the last of the three nested callbacks: frm.add_child and the new row
add_child(its, item_code, available_qty, status) ==
  Append(its,
         Row(CHOOSE n \in RowNamePool : n \notin RowNames(its), item_code, 1,
             IF status = "Draft" THEN 1 ELSE 0, 0, 0, available_qty))

\* the callback of a lookup, by the request it answers
lookup_callback(lk, its, status) ==
  CASE lk.method = "get_item_by_barcode" ->
         LET item_code == get_item_by_barcode(lk.barcode)
         IN IF item_code = "" THEN Outcome(its, "Barcode not found", <<>>)
            ELSE IF lk.operation_mode = "add_item"
            THEN handle_add_item_by_barcode(its, item_code, lk.barcode, status)
            ELSE IF lk.operation_mode = "ship_item"
            THEN handle_ship_item_by_barcode(its, item_code)
            ELSE handle_receive_item_by_barcode(its, item_code)
    [] lk.method = "frappe.client.get" ->
         Outcome(its, alert,
                 << Lookup("get_value source", "add_item", lk.barcode,
                           lk.item_code, 0) >>)
    [] lk.method = "get_value source" ->
         IF actual_qty(lk.item_code) <= 0
         THEN Outcome(its, "No stock available", <<>>)
         ELSE Outcome(its, alert,
                      << Lookup("get_value target", "add_item", lk.barcode,
                                lk.item_code, actual_qty(lk.item_code)) >>)
    [] OTHER ->
         Outcome(add_child(its, lk.item_code, lk.available_qty, status),
                 "Added", <<>>)

\* the custom_scan_barcode handler up to its frappe.call
custom_scan_barcode(text, status, source, target) ==
  LET scanned_barcode == trim(text)
  IN IF scanned_barcode = "" THEN [alert |-> alert, next |-> <<>>]
     ELSE IF operation_mode(status) = ""
     THEN [alert |-> "Barcode scanning not available", next |-> <<>>]
     ELSE IF operation_mode(status) = "add_item"
             /\ (source = "" \/ target = "")
     THEN [alert |-> "Please select Source and Target warehouses first",
           next |-> <<>>]
     ELSE [alert |-> alert,
           next |-> << Lookup("get_item_by_barcode", operation_mode(status),
                              scanned_barcode, "", 0) >>]

\* the bag of the lookups in a sequence of at most one
Issued(next) == IF next = <<>> THEN EmptyBag ELSE SetToBag({next[1]})

ScanBarcode(text) ==
  /\ Idle
  /\ ~ ui.disabled
  /\ BagCardinality(lookups) < MaxPending
  /\ LET h == custom_scan_barcode(text, approval_status, source_warehouse,
                                  target_warehouse)
     IN /\ alert' = h.alert
        /\ lookups' = lookups (+) Issued(h.next)
  /\ UNCHANGED <<approval_status, user_roles, source_warehouse,
                 target_warehouse, items, original_quantities, server, dirty,
                 rendered, buttons, dialog, call, last_handler>>
  /\ UNCHANGED <<ui, transfer_type, confirm, sheet, reply, resp, raised,
                 receipt>>

\* a lookup of the transfer request is answered and its callback runs
LookupCallback(lk) ==
  /\ BagIn(lk, lookups)
  /\ lk.method # "get_po_ordered_qty"
  /\ lk.method = "get_value target" => Len(items) < MaxRows
  /\ LET o == lookup_callback(lk, items, approval_status)
     IN /\ items' = o.items
        /\ alert' = o.alert
        /\ lookups' = (lookups (-) SetToBag({lk})) (+) Issued(o.next)
        /\ dirty' = (dirty \/ o.items # items)
  /\ UNCHANGED <<approval_status, user_roles, source_warehouse,
                 target_warehouse, original_quantities, server, rendered,
                 buttons, dialog, call, last_handler>>
  /\ UNCHANGED <<ui, transfer_type, confirm, sheet, reply, resp, raised,
                 receipt>>

\* the lookups that can be in flight
LookupsInFlight ==
  {Lookup(mt, md, b, c, q) :
     mt \in {"get_item_by_barcode", "frappe.client.get", "get_value source",
             "get_value target"},
     md \in {"add_item", "ship_item", "receive_item"},
     b \in {trim(t) : t \in ScannedTexts},
     c \in {"", "ITEM-A", "ITEM-B", "ITEM-D"},
     q \in 0..MaxQty}

InitScan ==
  /\ approval_status \in Statuses
  /\ user_roles = {"Zahran Warehouse Manager", "Store Warehouse Manager"}
  /\ source_warehouse = "Zahran Main - EZ"
  /\ target_warehouse = "Store Warehouse - EZ"
  /\ transfer_type = "External Transfer"
  /\ items \in IF approval_status = "Draft"
               THEN {<<>>} \cup ServerItems("Draft")
               ELSE ServerItems(approval_status)
  /\ server = [status |-> approval_status, items |-> items]
  /\ Unrendered

NextScan ==
  \/ Refresh
  \/ \E text \in ScannedTexts : ScanBarcode(text)
  \/ \E lk \in LookupsInFlight : LookupCallback(lk)

SpecScan == InitScan /\ [][NextScan]_vars

----------------------------------------------------------------------------

(* Purchase Receipt: the scan_barcode handler and the callback of          *)
(* get_po_ordered_qty.  The request is issued without freeze.              *)

PRRow(n, barcode, item_code, po, qty) ==
  [name |-> n, barcode |-> barcode, item_code |-> item_code,
   purchase_order |-> po, custom_received_quantity |-> qty]

\* the receipts opened: made from PO-1, with the received quantities typed
\* so far; the third row repeats the barcode of the first
ReceiptDocs ==
  {[docstatus |-> d, purchase_order |-> po, items |-> its] :
     d \in {0, 1}, po \in {"", "PO-1"},
     its \in {<<>>}
        \cup {<< PRRow("pr1", "BC-A", "ITEM-A", "PO-1", q[1]),
                 PRRow("pr2", "BC-B", "ITEM-B", "", q[2]) >> :
                q \in (0..1) \X (0..1)}
        \cup {<< PRRow("pr1", "BC-A", "ITEM-A", "PO-1", 1),
                 PRRow("pr2", "BC-B", "ITEM-B", "", 0),
                 PRRow("pr3", "BC-A", "ITEM-A", "PO-1", 0) >>}}

\* ordered quantity of the item on the purchase order, -1 when the order
\* does not hold the item
get_po_ordered_qty(po_reference, item_code) ==
  IF po_reference # "PO-1" THEN 0 - 1
  ELSE IF item_code = "ITEM-A" THEN MaxQty
  ELSE IF item_code = "ITEM-B" THEN 1
  ELSE 0 - 1

\* r of get_po_ordered_qty: no message, success = false, or the quantity
OrderedQtyResponses == {"absent", "failure", "success"}

\* the forEach over frm.doc.items: the last row with the barcode, 0 for none
pr_item_row(its, scanned_barcode) ==
  LET found == {i \in 1..Len(its) : its[i].barcode = scanned_barcode}
  IN IF found = {} THEN 0
     ELSE CHOOSE i \in found : \A j \in found : j <= i

OrderedQtyLookup(row, barcode, po_reference) ==
  [method |-> "get_po_ordered_qty", operation_mode |-> "",
   barcode |-> barcode, item_code |-> row.item_code, available_qty |-> 0,
   row |-> row.name, po_reference |-> po_reference]

\* scan_barcode up to its frappe.call
scan_barcode(text, rc) ==
  LET scanned_barcode == trim(text)
      i == pr_item_row(rc.items, scanned_barcode)
      po_reference == IF rc.items[i].purchase_order # ""
                      THEN rc.items[i].purchase_order
                      ELSE rc.purchase_order
  IN IF scanned_barcode = "" THEN [alert |-> alert, next |-> <<>>]
     ELSE IF rc.docstatus # 0
     THEN [alert |-> "Cannot scan on submitted document", next |-> <<>>]
     ELSE IF rc.items = <<>>
     THEN [alert |-> "No items in PR", next |-> <<>>]
     ELSE IF i = 0
     THEN [alert |-> "Barcode NOT in Purchase Receipt", next |-> <<>>]
     ELSE IF po_reference = ""
     THEN [alert |-> "No Purchase Order reference found", next |-> <<>>]
     ELSE [alert |-> alert,
           next |-> << OrderedQtyLookup(rc.items[i], scanned_barcode,
                                        po_reference) >>]

\* the callback writing the quantity whatever the ordered quantity is
get_po_ordered_qty_callback_NoLimit(lk, kind, rc) ==
  LET i == CHOOSE k \in 1..Len(rc.items) : rc.items[k].name = lk.row
      new_qty == rc.items[i].custom_received_quantity + 1
  IN IF kind = "absent"
     THEN [receipt |-> rc, alert |-> alert, raised |-> "TypeError"]
     ELSE IF kind = "failure"
     THEN [receipt |-> rc, alert |-> "Item not found in Purchase Order",
           raised |-> ""]
     ELSE [receipt |->
             [rc EXCEPT !.items[i].custom_received_quantity = new_qty],
           alert |-> "Received +1", raised |-> ""]

\* the callback of get_po_ordered_qty: pr_item_row is read when it runs
get_po_ordered_qty_callback(lk, kind, rc) ==
  LET i == CHOOSE k \in 1..Len(rc.items) : rc.items[k].name = lk.row
      ordered_qty == get_po_ordered_qty(lk.po_reference, lk.item_code)
      new_qty == rc.items[i].custom_received_quantity + 1
  IN IF kind = "absent"
     THEN [receipt |-> rc, alert |-> alert, raised |-> "TypeError"]
     ELSE IF kind = "failure"
     THEN [receipt |-> rc, alert |-> "Item not found in Purchase Order",
           raised |-> ""]
     ELSE IF new_qty > ordered_qty
     THEN [receipt |-> rc, alert |-> "Max reached", raised |-> ""]
     ELSE [receipt |->
             [rc EXCEPT !.items[i].custom_received_quantity = new_qty],
           alert |-> "Received +1", raised |-> ""]

ScanReceipt(text) ==
  /\ BagCardinality(lookups) < MaxPending
  /\ LET h == scan_barcode(text, receipt)
     IN /\ alert' = h.alert
        /\ lookups' = lookups (+) Issued(h.next)
  /\ UNCHANGED <<approval_status, user_roles, source_warehouse,
                 target_warehouse, items, original_quantities, server, dirty,
                 rendered, buttons, dialog, call, last_handler>>
  /\ UNCHANGED <<ui, transfer_type, confirm, sheet, reply, resp, raised,
                 receipt>>

\* the server answers get_po_ordered_qty and the callback runs; success
\* is an answer for an item of the order
OrderedQtyCallback(lk, kind) ==
  /\ BagIn(lk, lookups)
  /\ lk.method = "get_po_ordered_qty"
  /\ kind = "success" =>
       get_po_ordered_qty(lk.po_reference, lk.item_code) >= 0
  /\ LET o == get_po_ordered_qty_callback(lk, kind, receipt)
     IN /\ receipt' = o.receipt
        /\ alert' = o.alert
        /\ raised' = o.raised
  /\ lookups' = lookups (-) SetToBag({lk})
  /\ UNCHANGED <<approval_status, user_roles, source_warehouse,
                 target_warehouse, items, original_quantities, server, dirty,
                 rendered, buttons, dialog, call, last_handler>>
  /\ UNCHANGED <<ui, transfer_type, confirm, sheet, reply, resp>>

\* the get_po_ordered_qty requests that can be in flight
OrderedQtyLookups ==
  {OrderedQtyLookup(row, row.barcode, po) :
     row \in {PRRow(n, b, c, "", 0) :
                n \in {"pr1", "pr2", "pr3"}, b \in {"BC-A", "BC-B"},
                c \in {"ITEM-A", "ITEM-B"}},
     po \in {"PO-1"}}

InitReceipt ==
  /\ approval_status = "Draft"
  /\ user_roles = {}
  /\ source_warehouse = ""
  /\ target_warehouse = ""
  /\ transfer_type = ""
  /\ items = <<>>
  /\ server = [status |-> approval_status, items |-> items]
  /\ original_quantities = MissingSnapshot
  /\ dirty = FALSE
  /\ rendered = FALSE
  /\ buttons = {}
  /\ dialog = NoDialog
  /\ call = NoCall
  /\ last_handler = ""
  /\ ui = UnrenderedUI
  /\ confirm = ""
  /\ sheet = NoSheet
  /\ reply = NoReply
  /\ resp = NoResponse
  /\ raised = ""
  /\ lookups = EmptyBag
  /\ alert = ""
  /\ receipt \in ReceiptDocs

NextReceipt ==
  \/ \E text \in ScannedTexts : ScanReceipt(text)
  \/ \E lk \in OrderedQtyLookups : \E kind \in OrderedQtyResponses :
       OrderedQtyCallback(lk, kind)

SpecReceipt == InitReceipt /\ [][NextReceipt]_vars

----------------------------------------------------------------------------

(* Draft: the ways the requester fills the item table.  Barcodes are       *)
(* scanned one after the other here; scans in flight together are in       *)
(* SpecScan.                                                               *)

\* the user types v into requested_qty of row i; the requested_qty handler
\* lowers it to available_qty when the row has one
EditRequested(i, v) ==
  /\ Idle
  /\ editable_fields(approval_status, user_roles).requested_qty
  /\ v # items[i].requested_qty
  /\ items' = [items EXCEPT ![i].requested_qty =
                 IF items[i].available_qty # 0 /\ v > items[i].available_qty
                 THEN items[i].available_qty ELSE v]
  /\ dirty' = TRUE
  /\ UNCHANGED <<approval_status, user_roles, source_warehouse,
                 target_warehouse, original_quantities, server, rendered,
                 buttons, dialog, call, last_handler>>
  /\ UNCHANGED <<ui, extras>>

\* the worksheets made from the downloaded template, with one row of ITEM-A
TemplateSheets ==
  {sh \in Sheets :
     /\ sh.headers[2] = "Requested Qty (mandatory) Example: 50"
     /\ Len(sh.rows) = 1
     /\ sh.rows[1][1] = " ITEM-A "}

InitDraft ==
  /\ approval_status = "Draft"
  /\ user_roles = {"Zahran Warehouse Manager", "Store Warehouse Manager"}
  /\ source_warehouse = "Zahran Main - EZ"
  /\ target_warehouse = "Store Warehouse - EZ"
  /\ transfer_type = "External Transfer"
  /\ items \in {<<>>} \cup ServerItems("Draft")
  /\ server = [status |-> approval_status, items |-> items]
  /\ Unrendered

NextDraft ==
  \/ Refresh
  \/ AddRow
  \/ \E i \in 1..Len(items) : \E v \in 1..(MaxQty + 1) : EditRequested(i, v)
  \/ \E text \in ScannedTexts : lookups = EmptyBag /\ ScanBarcode(text)
  \/ \E lk \in LookupsInFlight : LookupCallback(lk)
  \/ \E loaded \in BOOLEAN : \E readable \in BOOLEAN :
       \E sh \in TemplateSheets : ClickUpload(loaded, readable, sh)
  \/ \E kind \in ReplyKinds : ServerValidates(kind)
  \/ UploadCallback
  \/ DismissDialog

SpecDraft == InitDraft /\ [][NextDraft]_vars

----------------------------------------------------------------------------

(* Vocabulary of the properties *)

Rows == 1..Len(items)

\* the baseline snapshot of row i, as stored on the form
BaselineShipped(i) == original_quantities.q[items[i].name].shipped_qty

BaselineReceived(i) == original_quantities.q[items[i].name].received_qty

\* the quantities of row i as last persisted by the server
PersistedShipped(i) == RowByName(server.items, items[i].name).shipped_qty

PersistedReceived(i) == RowByName(server.items, items[i].name).received_qty

PayloadHas(code, q) ==
  \E k \in 1..Len(call.items) : call.items[k] = [item_code |-> code, qty |-> q]

LineNames(line, code, a, b) ==
  /\ Len(line.args) = 3
  /\ line.args[1] = code
  /\ line.args[2] = a
  /\ line.args[3] = b

WorkflowSteps ==
  {{"Submit for Approval"}, {"Approve", "Reject"}, {"Mark as Shipped"},
   {"Confirm Receipt"}}

WorkflowLabels == UNION WorkflowSteps

----------------------------------------------------------------------------
(* Quantity delta tracker *)

\* C1: the shipped_items payload of mark_as_shipped holds exactly the rows
\* with accepted_qty > 0 whose shipped_qty is above the baseline snapshot,
\* each with the increment (current minus baseline) as qty, never the
\* cumulative total; the received_items payload of confirm_receipt likewise,
\* over the rows the receipt does not exclude (shipped_qty > 0).
C1_PayloadIsIncrementOverBaseline ==
  /\ call.method = "mark_as_shipped" =>
       /\ \A i \in Rows :
            (items[i].accepted_qty > 0
               /\ items[i].shipped_qty - BaselineShipped(i) > 0)
            <=> PayloadHas(items[i].item_code,
                           items[i].shipped_qty - BaselineShipped(i))
       /\ Len(call.items) =
            Cardinality({i \in Rows :
               items[i].accepted_qty > 0
                 /\ items[i].shipped_qty - BaselineShipped(i) > 0})
  /\ call.method = "confirm_receipt" =>
       /\ \A i \in Rows :
            (items[i].shipped_qty > 0
               /\ items[i].received_qty - BaselineReceived(i) > 0)
            <=> PayloadHas(items[i].item_code,
                           items[i].received_qty - BaselineReceived(i))
       /\ Len(call.items) =
            Cardinality({i \in Rows :
               items[i].shipped_qty > 0
                 /\ items[i].received_qty - BaselineReceived(i) > 0})

\* a shipment whose row had a non-zero baseline: the qty sent is the
\* difference, strictly below the row's cumulative shipped_qty
C1_Witness ==
  /\ call.method = "mark_as_shipped"
  /\ \E i \in Rows :
       /\ BaselineShipped(i) > 0
       /\ items[i].shipped_qty > BaselineShipped(i)
       /\ PayloadHas(items[i].item_code,
                     items[i].shipped_qty - BaselineShipped(i))

C3_MissingSnapshotSendsNothing ==
  (~ original_quantities.present /\ last_handler # "") =>
    /\ call = NoCall
    /\ \A i \in Rows :
         /\ shipping_now(items[i],
              original_quantities_snapshot(items, original_quantities)) = 0
         /\ receiving_now(items[i],
              original_quantities_snapshot(items, original_quantities)) = 0
    /\ dialog.title \in
         IF items = <<>> THEN {"No Items"}
         ELSE IF last_handler = "save_and_ship"
           THEN {"All Items Shipped", "No Items Selected"}
           ELSE {"All Items Received", "No Items Selected"}

\* Mark as Shipped ran without a snapshot on a row with quantity already
\* shipped, which a zero baseline would have sent again
C3_Witness ==
  /\ ~ original_quantities.present
  /\ last_handler = "save_and_ship"
  /\ dialog.title = "No Items Selected"
  /\ \E i \in Rows :
       /\ items[i].shipped_qty > 0
       /\ items[i].shipped_qty < items[i].accepted_qty

----------------------------------------------------------------------------
(* Validation before submission *)

\* C4 as stated: no mark_as_shipped / confirm_receipt call is issued while
\* any row with a positive delta is above its limit.
C4_AnyRowOverLimitRejects ==
  /\ call.method = "mark_as_shipped" =>
       ~ \E i \in Rows :
           /\ items[i].shipped_qty - BaselineShipped(i) > 0
           /\ items[i].shipped_qty > items[i].accepted_qty
  /\ call.method = "confirm_receipt" =>
       ~ \E i \in Rows :
           /\ items[i].received_qty - BaselineReceived(i) > 0
           /\ items[i].received_qty > items[i].shipped_qty

\* C4 (amended): no call is issued while a row that is not excluded
\* (accepted_qty # 0 for ship, shipped_qty # 0 for receive) has a positive
\* delta and is above its limit, even when other rows are valid; and every
\* row of a payload sent is within its limit.
C4_NonExcludedRowOverLimitRejects ==
  /\ call.method = "mark_as_shipped" =>
       /\ ~ \E i \in Rows :
             /\ items[i].accepted_qty # 0
             /\ items[i].shipped_qty - BaselineShipped(i) > 0
             /\ items[i].shipped_qty > items[i].accepted_qty
       /\ \A i \in Rows : \A k \in 1..Len(call.items) :
             call.items[k].item_code = items[i].item_code =>
               items[i].shipped_qty <= items[i].accepted_qty
  /\ call.method = "confirm_receipt" =>
       /\ ~ \E i \in Rows :
             /\ items[i].shipped_qty # 0
             /\ items[i].received_qty - BaselineReceived(i) > 0
             /\ items[i].received_qty > items[i].shipped_qty
       /\ \A i \in Rows : \A k \in 1..Len(call.items) :
             call.items[k].item_code = items[i].item_code =>
               items[i].received_qty <= items[i].shipped_qty

\* Mark as Shipped was rejected for one row above its limit although
\* another row was valid and had a positive delta
C4_Witness ==
  /\ last_handler = "save_and_ship"
  /\ dialog.title = "Validation Errors"
  /\ call = NoCall
  /\ \E i, j \in Rows :
       /\ items[i].accepted_qty # 0
       /\ items[i].shipped_qty - BaselineShipped(i) > 0
       /\ items[i].shipped_qty > items[i].accepted_qty
       /\ items[j].shipped_qty - BaselineShipped(j) > 0
       /\ items[j].shipped_qty <= items[j].accepted_qty
       /\ items[j].shipped_qty - BaselineShipped(j) <= items[j].available_qty

ApproveViolation(i) ==
  items[i].accepted_qty < 0 \/ items[i].accepted_qty > items[i].requested_qty

\* C5 as stated: when an item has accepted_qty above requested_qty or
\* negative, Approve issues neither the save nor approve_transfer, and the
\* message names the item code and both quantities of every such item.
C5_RejectionNamesBothQuantities ==
  (last_handler = "save_and_approve" /\ \E i \in Rows : ApproveViolation(i)) =>
    /\ call = NoCall
    /\ \A i \in Rows : ApproveViolation(i) =>
         \E k \in 1..Len(dialog.lines) :
            LineNames(dialog.lines[k], items[i].item_code,
                      items[i].accepted_qty, items[i].requested_qty)

\* C5 (amended): when an item has accepted_qty above requested_qty or
\* negative, Approve issues neither the save nor approve_transfer; the
\* message names the item code and both quantities of every item above its
\* requested_qty, and the item code alone of every negative one.
C5_RejectionNamesItem ==
  (last_handler = "save_and_approve" /\ \E i \in Rows : ApproveViolation(i)) =>
    /\ call = NoCall
    /\ dialog.title = "Validation Errors"
    /\ \A i \in Rows :
         /\ (items[i].accepted_qty >= 0
               /\ items[i].accepted_qty > items[i].requested_qty) =>
              \E k \in 1..Len(dialog.lines) :
                 LineNames(dialog.lines[k], items[i].item_code,
                           items[i].accepted_qty, items[i].requested_qty)
         /\ items[i].accepted_qty < 0 =>
              \E k \in 1..Len(dialog.lines) :
                 dialog.lines[k].args = <<items[i].item_code>>

\* Approve ran on a document with an item accepted above its requested_qty
C5_Witness ==
  /\ last_handler = "save_and_approve"
  /\ dialog.title = "Validation Errors"
  /\ dirty
  /\ \E i \in Rows : items[i].accepted_qty > items[i].requested_qty

ShipViolation(i) ==
  /\ items[i].accepted_qty # 0
  /\ items[i].shipped_qty - BaselineShipped(i) > 0
  /\ \/ items[i].shipped_qty > items[i].accepted_qty
     \/ items[i].shipped_qty - BaselineShipped(i) > items[i].available_qty

ReceiveViolation(i) ==
  /\ items[i].shipped_qty # 0
  /\ items[i].received_qty - BaselineReceived(i) > 0
  /\ items[i].received_qty > items[i].shipped_qty

HandlerViolations ==
  CASE last_handler = "save_and_approve" -> {i \in Rows : ApproveViolation(i)}
    [] last_handler = "save_and_ship" -> {i \in Rows : ShipViolation(i)}
    [] last_handler = "save_and_receive" -> {i \in Rows : ReceiveViolation(i)}
    [] OTHER -> {}

\* C6: validation of approve, ship and receive does not fail fast: the
\* error list shown has one entry for every row that fails a check, each
\* naming its row's item, so the number of messages equals the number of
\* violating rows.
C6_OneMessagePerViolatingRow ==
  (HandlerViolations # {} \/ dialog.title = "Validation Errors") =>
    /\ dialog.title = "Validation Errors"
    /\ Len(dialog.lines) = Cardinality(HandlerViolations)
    /\ \A i \in HandlerViolations :
         \E k \in 1..Len(dialog.lines) :
            dialog.lines[k].args[1] = items[i].item_code

\* Mark as Shipped ran on two violating rows and listed both
C6_Witness ==
  /\ last_handler = "save_and_ship"
  /\ Cardinality(HandlerViolations) = 2
  /\ Len(dialog.lines) = 2

\* C7: when no row has a positive delta, no call is issued and one of the
\* two empty-states is shown: "All Items Shipped" / "All Items Received"
\* iff no non-excluded row has its baseline below its limit, otherwise
\* "No Items Selected".
C7_ExactlyOneOfTwoEmptyStates ==
  /\ (last_handler = "save_and_ship"
        /\ \A i \in Rows : items[i].shipped_qty - BaselineShipped(i) <= 0) =>
       /\ call = NoCall
       /\ dialog.title =
            IF \E i \in Rows : /\ items[i].accepted_qty # 0
                               /\ BaselineShipped(i) < items[i].accepted_qty
            THEN "No Items Selected" ELSE "All Items Shipped"
  /\ (last_handler = "save_and_receive"
        /\ \A i \in Rows : items[i].received_qty - BaselineReceived(i) <= 0) =>
       /\ call = NoCall
       /\ dialog.title =
            IF \E i \in Rows : /\ items[i].shipped_qty # 0
                               /\ BaselineReceived(i) < items[i].shipped_qty
            THEN "No Items Selected" ELSE "All Items Received"

----------------------------------------------------------------------------
(* Status-driven button resolver *)

\* C8: in Shipped, Partially Shipped and Partially Completed a user who
\* passes can_receive is offered Confirm Receipt after refresh.
C8_ConfirmReceiptOfferedInShippedStates ==
  (/\ rendered
   /\ approval_status \in {"Shipped", "Partially Shipped", "Partially Completed"}
   /\ can_receive(user_roles, target_warehouse))
  => "Confirm Receipt" \in buttons

\* C9: for every status, role set and warehouse pair, refresh offers the
\* buttons of at most one workflow step, and none in Completed and Rejected.
C9_AtMostOneWorkflowStep ==
  /\ Cardinality({st \in WorkflowSteps : st \cap buttons # {}}) <= 1
  /\ approval_status \in {"Completed", "Rejected"} => buttons = {}

\* a user able to ship and to receive a Partially Shipped transfer is
\* offered Mark as Shipped alone
C9_Witness ==
  /\ rendered
  /\ approval_status = "Partially Shipped"
  /\ can_ship(user_roles, source_warehouse)
  /\ can_receive(user_roles, target_warehouse)
  /\ buttons = {"Mark as Shipped"}

ActionCombination ==
  \/ approval_status = "Pending Approval"
       /\ "External Transfer Manager" \in user_roles
  \/ approval_status \in {"Approved - Pending Shipment", "Partially Shipped"}
       /\ can_ship(user_roles, source_warehouse)
  \/ approval_status \in {"Shipped", "Partially Shipped", "Partially Completed"}
       /\ can_receive(user_roles, target_warehouse)

\* C10 as stated: outside Pending Approval with the approval-manager role,
\* the shipping statuses with the source-warehouse role and the shipped
\* states with the destination-warehouse role, refresh shows no workflow
\* action button.
C10_NoButtonOutsideRoleCombinations ==
  (rendered /\ ~ ActionCombination) => buttons \cap WorkflowLabels = {}

\* C10 (amended): outside Draft (any role) and the three combinations
\* above, refresh shows no workflow action button.
C10_NoButtonOutsideDraftAndRoleCombinations ==
  (rendered /\ approval_status # "Draft" /\ ~ ActionCombination) =>
    buttons \cap WorkflowLabels = {}

\* a warehouse manager of the other warehouse looks at an approved transfer
\* and is offered nothing
C10_Witness ==
  /\ rendered
  /\ approval_status = "Approved - Pending Shipment"
  /\ "Store Warehouse Manager" \in user_roles
  /\ ~ can_ship(user_roles, source_warehouse)
  /\ buttons = {}

\* C11: in Pending Approval refresh offers Approve and Reject if and only if
\* the user holds External Transfer Manager, and no workflow action at all
\* without that role; in no other status are Approve / Reject offered.
C11_ApprovalOfferedToApprovalManagerOnly ==
  rendered =>
    /\ approval_status = "Pending Approval" =>
         buttons \cap WorkflowLabels =
           IF "External Transfer Manager" \in user_roles
           THEN {"Approve", "Reject"} ELSE {}
    /\ approval_status # "Pending Approval" =>
         buttons \cap {"Approve", "Reject"} = {}

\* a warehouse manager without the approval role looks at a request that
\* awaits approval and is offered nothing
C11_Witness ==
  /\ rendered
  /\ approval_status = "Pending Approval"
  /\ user_roles = {"Zahran Warehouse Manager", "Store Warehouse Manager"}
  /\ buttons = {}

----------------------------------------------------------------------------
(* Locking of the document by status *)

\* C12: in Completed and Rejected, for every role set, refresh offers no
\* workflow or Excel button and disables the form, all seven item columns
\* and the header fields are read-only, and no row is added or removed.
C12_TerminalStatusesFreezeDocument ==
  approval_status \in {"Completed", "Rejected"} =>
    /\ items = server.items
    /\ rendered =>
         /\ buttons = {}
         /\ ui.disabled
         /\ \A c \in Columns : ui.read_only[c] = 1
         /\ \A f \in HeaderFields : ui.header_read_only[f] = 1
         /\ ui.cannot_add_rows

\* a user holding every role has a Completed transfer rendered
C12_Witness ==
  /\ rendered
  /\ approval_status = "Completed"
  /\ user_roles = Roles
  /\ ui.disabled
  /\ ui.cannot_add_rows

\* C13: in every status after Draft the item structure is locked: Add Row
\* is disabled by update_field_visibility and no row is removed.
C13_ItemStructureLockedAfterDraft ==
  approval_status # "Draft" =>
    /\ items = server.items
    /\ rendered => ui.cannot_add_rows

Phases == {"entry", "acceptance", "shipment", "receipt"}

PhaseColumns(phase) ==
  CASE phase = "entry" -> {"item_code", "requested_qty", "requester_notes"}
    [] phase = "acceptance" -> {"accepted_qty", "manager_notes"}
    [] phase = "shipment" -> {"shipped_qty"}
    [] phase = "receipt" -> {"received_qty"}

\* C14: for every status and role set the editable columns belong to at
\* most one workflow phase (entry, acceptance, shipment, receipt).
C14_AtMostOnePhaseEditable ==
  rendered =>
    Cardinality({ph \in Phases :
                   \E c \in PhaseColumns(ph) : ui.read_only[c] = 0}) <= 1

\* C15: the read_only flags of the seven columns are those of a single call
\* of the resolver on the current status and roles, whether the grid's
\* columns were all open or all closed before it, and whatever calls were
\* made earlier.
C15_FlagsDependOnStatusAndRolesOnly ==
  (rendered \/ dirty) =>
    \A before \in {[c \in Columns |-> 0], [c \in Columns |-> 1]} :
       ui.read_only =
         control_quantity_field_editability(before, approval_status,
                                            user_roles)

\* the form was refreshed while approved (Mark as Shipped is still on the
\* page), then its status became Shipped: shipped_qty is closed again
C15_Witness ==
  /\ rendered
  /\ dirty
  /\ buttons = {"Mark as Shipped"}
  /\ approval_status = "Shipped"
  /\ ui.read_only["shipped_qty"] = 1
  /\ ui.read_only["received_qty"] = 0

----------------------------------------------------------------------------
(* Warehouse selection *)

\* C16: after any sequence of source and target selections the form never
\* holds a non-empty source_warehouse equal to target_warehouse; a handler
\* that refuses a duplicate clears the field just set and leaves the other
\* field as it was.
C16_SourceNeverEqualsTarget ==
  /\ [](source_warehouse = "" \/ source_warehouse # target_warehouse)
  /\ [][(dialog'.title = "Invalid Selection" /\ dialog.title = "") =>
          IF last_handler' = "source_warehouse"
          THEN /\ source_warehouse' = ""
               /\ target_warehouse' = target_warehouse
               /\ target_warehouse # ""
          ELSE /\ target_warehouse' = ""
               /\ source_warehouse' = source_warehouse
               /\ source_warehouse # ""]_vars

\* the source was set to the warehouse already selected as target
C16_Witness ==
  /\ dialog.title = "Invalid Selection"
  /\ last_handler = "source_warehouse"
  /\ source_warehouse = ""
  /\ target_warehouse = "Damage - EZ"

SourceGroup ==
  IF source_warehouse \in GROUP_A THEN GROUP_A
  ELSE IF source_warehouse \in GROUP_B THEN GROUP_B
  ELSE {}

\* C17: for an Internal transfer with the source selected from group A or
\* B, the target candidates exclude the source and include every other
\* member of the source's group.
C17_InternalTargetsAreGroupPeers ==
  (transfer_type = "Internal Transfer" /\ SourceGroup # {}) =>
    /\ source_warehouse \notin TargetQuery(transfer_type, source_warehouse)
    /\ SourceGroup \ {source_warehouse}
         \subseteq TargetQuery(transfer_type, source_warehouse)

\* an Internal transfer whose target was picked among the source's peers
C17_Witness ==
  /\ transfer_type = "Internal Transfer"
  /\ source_warehouse = "Damage - EZ"
  /\ target_warehouse = "Damage For Sale - EZ"
  /\ last_handler = "target_warehouse"

\* C18: for an External transfer the source and the target candidates are
\* subsets of {Zahran Main - EZ, Store Warehouse - EZ}, neither contains
\* the selected opposite endpoint, and with a source chosen (no question
\* about the transfer type pending) exactly one target candidate remains.
C18_ExternalCandidatesAreTheFixedPair ==
  transfer_type = "External Transfer" =>
    /\ SourceQuery(transfer_type, target_warehouse)
         \subseteq {"Zahran Main - EZ", "Store Warehouse - EZ"}
    /\ TargetQuery(transfer_type, source_warehouse)
         \subseteq {"Zahran Main - EZ", "Store Warehouse - EZ"}
    /\ target_warehouse \notin SourceQuery(transfer_type, target_warehouse)
    /\ source_warehouse \notin TargetQuery(transfer_type, source_warehouse)
    /\ (source_warehouse # "" /\ confirm = "") =>
         Cardinality(TargetQuery(transfer_type, source_warehouse)) = 1

\* an External transfer whose source was picked with the target selected
C18_Witness ==
  /\ transfer_type = "External Transfer"
  /\ source_warehouse = "Store Warehouse - EZ"
  /\ target_warehouse = "Zahran Main - EZ"
  /\ last_handler = "source_warehouse"
  /\ confirm = ""

----------------------------------------------------------------------------
(* Spreadsheet import *)

\* C19: the import replaces and only after validation: when
\* validate_items_for_upload answers success the item table afterwards is
\* the validated items, same count and order, shipped_qty = received_qty =
\* 0, none of the prior rows left; when validation fails or the request
\* errors the table is unchanged; and nothing else of the import touches
\* the table.
C19_ImportReplacesAfterValidation ==
  [][/\ (call.method = "validate_items_for_upload" /\ call'.method = "") =>
          IF reply.kind = "success"
          THEN /\ Len(items') = Len(reply.validated_items)
               /\ \A k \in 1..Len(items') :
                    /\ items'[k].item_code = reply.validated_items[k].item_code
                    /\ items'[k].requested_qty =
                         reply.validated_items[k].requested_qty
                    /\ items'[k].shipped_qty = 0
                    /\ items'[k].received_qty = 0
               /\ RowNames(items') \cap RowNames(items) = {}
          ELSE items' = items
     /\ items' # items =>
          (call.method = "validate_items_for_upload" /\ reply.kind = "success")
    ]_vars

\* a document loaded with two rows holds the single validated item
C19_Witness ==
  /\ dialog.title = "Upload Complete"
  /\ Len(server.items) = 2
  /\ Len(items) = 1
  /\ items[1].item_code = "ITEM-A"
  /\ items[1].name \notin RowNames(server.items)

\* the column of the first header with both "item" and "code" in it
ItemCodeColumn ==
  LET cols == {i \in 1..Len(sheet.headers) :
                 /\ includes(toLowerCase(sheet.headers[i]), "item")
                 /\ includes(toLowerCase(sheet.headers[i]), "code")}
  IN IF cols = {} THEN 0 ELSE CHOOSE i \in cols : \A j \in cols : i <= j

KeptRows ==
  SelectSeq(sheet.rows, LAMBDA r : trim(r[ItemCodeColumn]) # "")

\* C20: a validation request is issued only for a worksheet with an
\* item-code and a requested-qty header and at least one row whose
\* item-code cell is non-empty after trimming, and the list sent is exactly
\* those rows, in sheet order, with the trimmed cell as item_code.
C20_SentRowsHaveItemCodes ==
  call.method = "validate_items_for_upload" =>
    /\ ItemCodeColumn # 0
    /\ \E i \in 1..Len(sheet.headers) :
         /\ includes(toLowerCase(sheet.headers[i]), "requested")
         /\ includes(toLowerCase(sheet.headers[i]), "qty")
    /\ KeptRows # <<>>
    /\ Len(call.items) = Len(KeptRows)
    /\ \A k \in 1..Len(KeptRows) :
         call.items[k].item_code = trim(KeptRows[k][ItemCodeColumn])

\* a worksheet whose first header holds "item" only, with one of its two
\* rows lacking the item code
C20_Witness ==
  /\ call.method = "validate_items_for_upload"
  /\ sheet.headers[1] = "Item Name"
  /\ Len(sheet.rows) = 2
  /\ sheet.rows[1][2] = ""
  /\ Len(call.items) = 1
  /\ call.items[1].item_code = "ITEM-B"

----------------------------------------------------------------------------
(* The requests of the workflow actions *)

\* the button handlers, as actions of the form
WorkflowActions ==
  ClickSubmit \/ ClickApprove \/ ClickReject \/ ClickShip \/ ClickReceive

\* C21: while a transition RPC (submit_for_approval, approve_transfer,
\* reject_transfer, mark_as_shipped, confirm_receipt) is in flight no
\* workflow button responds, and the request in flight is replaced by nothing
\* but the end of its own callback: at most one transition RPC is in flight.
C21_OneTransitionRPCInFlight ==
  /\ [](call.method \in TransitionRPCs => ~ ENABLED WorkflowActions)
  /\ [][call.method \in TransitionRPCs => call' = call \/ call' = NoCall]_vars

\* mark_as_shipped is awaited on a form that still shows Mark as Shipped
C21_Witness ==
  /\ call.method = "mark_as_shipped"
  /\ "Mark as Shipped" \in buttons
  /\ dialog = NoDialog

\* C22 as stated: every request is a transition RPC issued by a workflow
\* action on the idle form, so that an action makes one network call and no
\* request follows from the completion of another.
C22_OneNetworkCallPerAction ==
  [][call' # call /\ call'.method # "" =>
       call.method = "" /\ call'.method \in TransitionRPCs]_vars

\* C22: a workflow action issues at most one transition RPC.  Submit for
\* Approval and Approve on a dirty form make two network calls, frm.save()
\* and, from its then(), the transition RPC; on a clean form, and for Reject,
\* Mark as Shipped and Confirm Receipt always, the transition RPC is the only
\* call.
C22_SaveThenOneTransitionRPC ==
  [][call' # call /\ call'.method # "" =>
       \/ /\ call.method = ""
          /\ call'.method \in TransitionRPCs
          /\ call'.then = ""
          /\ dirty => call'.method \notin {"submit_for_approval",
                                           "approve_transfer"}
       \/ /\ call.method = ""
          /\ call'.method = "frm.save"
          /\ dirty
          /\ call'.then \in {"submit_for_approval", "approve_transfer"}
       \/ /\ call.method = "frm.save"
          /\ call'.method = call.then
          /\ call'.then = ""]_vars

\* approve_transfer issued from the then() of the save of a dirty form
C22_Witness ==
  /\ call.method = "approve_transfer"
  /\ last_handler = "save_and_approve"
  /\ ~ dirty
  /\ server.status = "Pending Approval"
  /\ server.items = items
  /\ \E i \in 1..Len(items) : items[i].accepted_qty # items[i].requested_qty

\* the step in which the callback of the transition RPC runs
CallbackRuns == resp.arrived /\ ~ resp'.arrived

\* the form document, as the callback may leave or replace it
FormDocument ==
  <<approval_status, transfer_type, source_warehouse, target_warehouse,
    items, dirty>>

\* C23: for every transition RPC, the callback of an envelope with
\* success = true replaces the form document by the server's, and the
\* callback of an envelope with success = false opens a dialog with the
\* server's message and leaves the form document, its snapshot and its
\* buttons as they were.
C23_EnvelopeDecidesReload ==
  [][CallbackRuns /\ resp.envelope =>
       IF resp.success
       THEN /\ approval_status' = server.status
            /\ items' = server.items
            /\ ~ dirty'
            /\ dialog' = NoDialog
       ELSE /\ dialog'.title # ""
            /\ resp.message # "" => dialog'.lines = << resp.message >>
            /\ UNCHANGED <<FormDocument, original_quantities, buttons, ui>>]_vars

\* the server refused a shipment entered on the form: its message is on
\* the screen and the quantities typed are still there
C23_Witness ==
  /\ dialog.title = "Shipment Failed"
  /\ dialog.lines = << "Insufficient stock" >>
  /\ call = NoCall
  /\ approval_status = "Approved - Pending Shipment"
  /\ items # server.items

\* C28: for every transition RPC, the callback of a response without an
\* envelope (r.message absent) opens an error dialog saying "Unknown error",
\* reloads nothing and raises no exception.
C28_MissingEnvelopeIsFailure ==
  [][CallbackRuns /\ ~ resp.envelope =>
       /\ dialog'.title # ""
       /\ dialog'.lines = << "Unknown error" >>
       /\ raised' = ""
       /\ UNCHANGED FormDocument]_vars

\* C27: on the rendered form, whenever Mark as Shipped is offered the
\* shipped_qty column is editable, and whenever Confirm Receipt is offered
\* the received_qty column is editable, for the same user.
C27_ButtonsAndEditabilityAgreeOnRoles ==
  rendered =>
    /\ "Mark as Shipped" \in buttons => ui.read_only["shipped_qty"] = 0
    /\ "Confirm Receipt" \in buttons => ui.read_only["received_qty"] = 0

\* the warehouse group of a warehouse
GroupOf(w) ==
  IF w \in GROUP_A THEN GROUP_A
  ELSE IF w \in GROUP_B THEN GROUP_B
  ELSE {}

\* C29: for an Internal transfer, whatever order the endpoints were picked
\* in from the candidates of the two filters, a source and a target that
\* are both selected (no question to the user pending) belong to the same
\* warehouse group.
C29_InternalCandidatesStayInOneGroup ==
  /\ transfer_type = "Internal Transfer"
  /\ confirm = ""
  /\ source_warehouse # ""
  /\ target_warehouse # ""
  => GroupOf(source_warehouse) = GroupOf(target_warehouse)

\* the step in which the callback of a barcode lookup ends the scan
ScanCompletes == BagCardinality(lookups') < BagCardinality(lookups)

\* the lookup whose callback runs in the step
Consumed ==
  CHOOSE lk \in BagToSet(lookups) : CopiesIn(lk, lookups') < CopiesIn(lk, lookups)

\* the step raises column c of row i by one and changes nothing else in the
\* table
RaisesByOne(i, c) ==
  /\ Len(items') = Len(items)
  /\ items'[i][c] = items[i][c] + 1
  /\ items' = [items EXCEPT ![i][c] = items[i][c] + 1]

ShippingStatuses == {"Approved - Pending Shipment", "Partially Shipped"}

ReceivingStatuses == {"Shipped", "Partially Completed"}

\* C24: in Approved - Pending Shipment and Partially Shipped, a scan that
\* succeeds raises shipped_qty of the row matching the scanned item by
\* exactly 1, only on a row with accepted_qty > 0 and never above its
\* accepted_qty, and a scan that does not succeed changes no row; in Shipped
\* and Partially Completed the same holds of received_qty against
\* shipped_qty.  No row ever has shipped_qty > accepted_qty in a shipping
\* status or received_qty > shipped_qty in a receiving status.
C24_ScansRaiseByOneWithinLimit ==
  /\ [](\A i \in 1..Len(items) :
          /\ approval_status \in ShippingStatuses =>
               items[i].shipped_qty <= items[i].accepted_qty
          /\ approval_status \in ReceivingStatuses =>
               items[i].received_qty <= items[i].shipped_qty)
  /\ [][/\ approval_status \in ShippingStatuses /\ ScanCompletes =>
             IF alert' = "Shipped +1"
             THEN \E i \in 1..Len(items) :
                    /\ items[i].item_code = get_item_by_barcode(Consumed.barcode)
                    /\ items[i].accepted_qty > 0
                    /\ items[i].shipped_qty < items[i].accepted_qty
                    /\ RaisesByOne(i, "shipped_qty")
             ELSE items' = items
        /\ approval_status \in ReceivingStatuses /\ ScanCompletes =>
             IF alert' = "Received +1"
             THEN \E i \in 1..Len(items) :
                    /\ items[i].item_code = get_item_by_barcode(Consumed.barcode)
                    /\ items[i].shipped_qty > 0
                    /\ items[i].received_qty < items[i].shipped_qty
                    /\ RaisesByOne(i, "received_qty")
             ELSE items' = items]_vars

\* a row was scanned up to its accepted_qty and the next scan of it refused,
\* with a scan of the other item still in flight
C24_Witness ==
  /\ approval_status = "Approved - Pending Shipment"
  /\ alert = "Max reached"
  /\ \E i \in 1..Len(items) :
       /\ items[i].accepted_qty = MaxQty
       /\ items[i].shipped_qty = MaxQty
  /\ lookups # EmptyBag

\* C26: in Draft, whatever barcodes were scanned and in whatever order the
\* lookups were answered, no two rows of the table hold the same item_code.
C26_OneRowPerItemCode ==
  approval_status = "Draft" =>
    \A i, j \in 1..Len(items) :
      items[i].item_code = items[j].item_code => i = j

\* the rows of the Purchase Receipt with the quantity column left out
ReceiptShape(rc) ==
  [docstatus |-> rc.docstatus, purchase_order |-> rc.purchase_order,
   items |-> [i \in 1..Len(rc.items) |->
                [rc.items[i] EXCEPT !.custom_received_quantity = 0]]]

\* C25: on the Purchase Receipt, with the get_po_ordered_qty callbacks of
\* several scans running in any order, a step changes the receipt only as
\* the callback of a successful scan, which raises custom_received_quantity
\* of the row the scan matched by exactly 1 and not above the ordered
\* quantity of its item; a scan that does not succeed changes nothing; no
\* step adds a row; and a request is in flight only on a draft receipt for
\* a row holding the scanned barcode.
C25_ReceiptScansRaiseByOneWithinOrder ==
  /\ [](\A lk \in BagToSet(lookups) :
          lk.method = "get_po_ordered_qty" =>
            /\ receipt.docstatus = 0
            /\ \E i \in 1..Len(receipt.items) :
                 /\ receipt.items[i].name = lk.row
                 /\ receipt.items[i].barcode = lk.barcode)
  /\ [][/\ ReceiptShape(receipt') = ReceiptShape(receipt)
        /\ ScanCompletes /\ alert' = "Received +1" /\ raised' = "" =>
             \E i \in 1..Len(receipt.items) :
               /\ receipt.items[i].name = Consumed.row
               /\ receipt'.items[i].custom_received_quantity
                    = receipt.items[i].custom_received_quantity + 1
               /\ receipt'.items[i].custom_received_quantity
                    <= get_po_ordered_qty(Consumed.po_reference,
                                          receipt.items[i].item_code)
               /\ \A j \in 1..Len(receipt.items) :
                    j # i => receipt'.items[j] = receipt.items[j]
        /\ ~ (ScanCompletes /\ alert' = "Received +1" /\ raised' = "") =>
             receipt' = receipt]_vars

\* both rows were scanned up to the quantities ordered and a further scan
\* was refused
C25_Witness ==
  /\ receipt.docstatus = 0
  /\ Len(receipt.items) = 2
  /\ receipt.items[2].custom_received_quantity = 1
  /\ receipt.items[1].custom_received_quantity = MaxQty
  /\ alert = "Max reached"
  /\ lookups = EmptyBag

\* C30: in Draft, however the rows were added, scanned, uploaded or edited,
\* every row with a requested_qty has accepted_qty equal to it.
C30_DraftAcceptedEqualsRequested ==
  approval_status = "Draft" =>
    \A i \in 1..Len(items) :
      items[i].requested_qty # 0 =>
        items[i].accepted_qty = items[i].requested_qty

====
